---- MODULE Spec2Model ----
(***************************************************************************)
(* Campaign send pipeline of listmonk_clone/campaign_manager: the status   *)
(* endpoint, process_campaign_sending_task, the batch task and the         *)
(* campaigns_db helpers, over one campaign document, a small set of        *)
(* subscribers and mailing lists.  Each database call is one atomic step;  *)
(* request handlers run concurrently and interleave between calls.         *)
(***************************************************************************)
EXTENDS Integers, Sequences, FiniteSets, TLC

VARIABLES
    storesDollarFields, \* deployment: does the server store "$"-prefixed nested fields
    campaign,           \* the campaign document
    subscribers,        \* subscriber id -> global status ("deleted" = no document)
    subscriptions,      \* <<subscriber, list>> -> subscription status ("none" = no document)
    workers,            \* request handler -> its position and locals
    sentTo,             \* subscriber id -> number of campaign messages handed to the mailer
    nReq,               \* requests accepted so far
    nOps,               \* subscriber / campaign management calls so far
    statsCall,          \* last direct call of update_campaign_stats: payload and outcome
    templates,          \* the ids of the stored templates
    templateDocs,       \* template id -> template_type and is_default of its document
    dal,                \* data-access call in progress, per caller: its position and locals
    tracking_events,    \* the tracking_events collection, in insertion order
    subscriber_docs,    \* the subscribers collection as documents: _id, email and status
    mailing_lists,      \* the _ids of the stored mailing lists
    subscription_docs,  \* the subscriptions collection as documents: _id, subscriber_id, list_id, status
    links,              \* the links collection: uuid and url
    next_id,            \* the ObjectIds and uuids handed out so far
    SUBSCRIBER_BATCH_SIZE \* settings.CELERY_SUBSCRIBER_BATCH_SIZE of the deployment

vars == <<storesDollarFields, campaign, subscribers, subscriptions, workers,
          sentTo, nReq, nOps, statsCall, templates, SUBSCRIBER_BATCH_SIZE,
          templateDocs, dal, tracking_events, subscriber_docs, mailing_lists,
          subscription_docs, links, next_id>>

\* what no step changes
deployment == <<storesDollarFields, SUBSCRIBER_BATCH_SIZE>>

\* the collections as documents, written by the data-access calls only
store == <<tracking_events, subscriber_docs, mailing_lists, subscription_docs, links, next_id>>

\* the collections and callers the send pipeline does not touch
catalog == <<templateDocs, dal, store>>

\* the state of the send pipeline, but the templates and the call counter
sending == <<storesDollarFields, SUBSCRIBER_BATCH_SIZE, campaign, subscribers,
             subscriptions, workers, sentTo, nReq, statsCall, store>>

----------------------------------------------------------------------------
(* Templates, and callers of the data-access layer *)
TemplateIds == {"t1", "t2", "t3"}
TemplateTypes == {"campaign", "transactional"}
Callers == {1, 2}

NoTemplateDocs == [t \in TemplateIds |-> [template_type |-> "campaign", is_default |-> FALSE]]
IdleCall == [op |-> "none", pc |-> "idle"]

\* empty collections of documents
StoreUnused ==
    /\ tracking_events = <<>>
    /\ subscriber_docs = {}
    /\ mailing_lists = {}
    /\ subscription_docs = {}
    /\ links = {}
    /\ next_id = 0

\* the collections outside the send pipeline are empty and no call runs
CatalogUnused ==
    /\ templateDocs = NoTemplateDocs
    /\ dal = [p \in Callers |-> IdleCall]
    /\ StoreUnused

----------------------------------------------------------------------------
(* Bounds *)
MaxRequests == 3
MaxManagedRequests == 2
MaxOps == 1
MaxStat == 2
MaxBatchSize == 2

Subs == {"s1", "s2", "s3"}
Lists == {"l1", "l2"}
Workers == {1, 2}

CampaignStatuses == {"draft", "scheduled", "running", "paused", "cancelled", "finished"}
SubscriberStatuses == {"enabled", "disabled", "blocklisted"}
StatFields == {"to_send", "sent", "failed", "views", "clicks", "bounces", "unsubscribes"}

----------------------------------------------------------------------------
(* Documents and update payloads.  A dict is a set of <<key, value>> pairs *)
(* with distinct keys; a key is its dotted path split at the dots; a value *)
(* is a number or a dict of numbers.                                       *)

Num(n) == [isnum |-> TRUE, n |-> n, d |-> {}]
Dict(entries) == [isnum |-> FALSE, n |-> 0, d |-> entries]

DollarNames == {"$inc", "$set"}

\* key.startswith("stats.")
StartsWithStats(key) == Len(key) >= 2 /\ key[1] = "stats"
\* op.startswith('$')
StartsWithDollar(key) == key[1] \in DollarNames

ZeroStats == [f \in StatFields |-> 0]

\* payloads built by the tasks
IncPayload(field, n) == {<< <<"$inc">>, Dict({<< <<"stats", field>>, n >>}) >>}
SetToSendPayload(k) ==
    {<< <<"$set">>, Dict({<< <<"stats", "to_send">>, k >>,
                          << <<"stats", "sent">>, 0 >>,
                          << <<"stats", "failed">>, 0 >>}) >>}
SetToSendOnlyPayload(k) == {<< <<"$set">>, Dict({<< <<"stats", "to_send">>, k >>}) >>}
\* payload shapes of the docstring
DirectSetPayload(field, n) == {<< <<"stats", field>>, Num(n) >>}
BareIncPayload(field, n) == {<< <<field>>, Num(n) >>}
PerFieldOpPayload(field, op, n) == {<< <<"stats", field>>, Dict({<< <<op>>, n >>}) >>}

\* update_campaign_stats, lines 220-233: the update document it builds.
\* ops: <<operator, path, value>>; bare: top-level keys that are no operator.
BuildStatsUpdateDoc(stats_update) ==
    LET isOpDict(kv) == StartsWithStats(kv[1]) /\ ~kv[2].isnum
                        /\ \E e \in kv[2].d : StartsWithDollar(e[1])
        isDirect(kv) == StartsWithStats(kv[1]) /\ ~isOpDict(kv)
        isBare(kv)   == ~StartsWithStats(kv[1])
    IN [ops |->
            UNION {{<<e[1][1], kv[1], Num(e[2])>> : e \in kv[2].d} : kv \in {x \in stats_update : isOpDict(x)}}
            \cup {<<"$set", kv[1], kv[2]>> : kv \in {x \in stats_update : isDirect(x)}}
            \cup {<<"$inc", <<"stats">> \o kv[1], kv[2]>> : kv \in {x \in stats_update : isBare(x) /\ x[2].isnum}}
            \cup {<<"$set", <<"stats">> \o kv[1], kv[2]>> : kv \in {x \in stats_update : isBare(x) /\ ~x[2].isnum}},
        bare |-> {kv[1] : kv \in {x \in stats_update : isOpDict(x)}}]

\* coll.update_one({"uuid": ...}, update_doc) on the campaign document: the
\* driver refuses an update document with a top-level key that is no
\* operator; the server refuses an unknown operator, two operators on one
\* path and, on deployments that do not store them, a "$"-prefixed field.
UpdateDocRefusedByDriver(update_doc) ==
    update_doc.bare # {} \/ \E op \in update_doc.ops : op[1] \notin DollarNames

UpdateDocRefusedByServer(update_doc, storesDollar) ==
    \/ \E a, b \in update_doc.ops : a[1] # b[1] /\ a[2] = b[2]
    \/ \E op \in update_doc.ops : op[2][Len(op[2])] \in DollarNames /\ ~storesDollar

StatAfterUpdate(stats, f, update_doc) ==
    LET path == <<"stats", f>>
        sets == {op \in update_doc.ops : op[1] = "$set" /\ op[2] = path /\ op[3].isnum}
        incs == {op \in update_doc.ops : op[1] = "$inc" /\ op[2] = path /\ op[3].isnum}
    IN IF sets # {} THEN (CHOOSE op \in sets : TRUE)[3].n
       ELSE IF incs # {} THEN stats[f] + (CHOOSE op \in incs : TRUE)[3].n
       ELSE stats[f]

ExtraAfterUpdate(extra, update_doc) ==
    LET written == {op \in update_doc.ops : op[1] = "$set" /\ op[2][Len(op[2])] \in DollarNames}
        names == {op[2][Len(op[2])] : op \in written}
    IN {e \in extra : e[1] \notin names}
       \cup {<<op[2][Len(op[2])], op[3]>> : op \in written}

\* as update_campaign_stats, but a top-level "$inc" key is passed through as
\* the operator while a top-level "$set" key is still treated as a field
update_campaign_stats_inc_passthrough(c, stats_update, storesDollar) ==
    LET incs == UNION {kv[2].d : kv \in {x \in stats_update : x[1] = <<"$inc">> /\ ~x[2].isnum}}
        rest == {x \in stats_update : ~(x[1] = <<"$inc">> /\ ~x[2].isnum)}
        built == BuildStatsUpdateDoc(rest)
        update_doc == [ops |-> built.ops \cup {<<"$inc", e[1], Num(e[2])>> : e \in incs},
                       bare |-> built.bare]
    IN IF update_doc.ops = {} /\ update_doc.bare = {}
       THEN [campaign |-> c, raised |-> FALSE, modified |-> 0]
       ELSE IF UpdateDocRefusedByDriver(update_doc)
       THEN [campaign |-> c, raised |-> TRUE, modified |-> 0]
       ELSE IF ~c.exists
       THEN [campaign |-> c, raised |-> FALSE, modified |-> 0]
       ELSE IF UpdateDocRefusedByServer(update_doc, storesDollar)
       THEN [campaign |-> c, raised |-> TRUE, modified |-> 0]
       ELSE [campaign |-> [c EXCEPT
                  !.stats = [f \in StatFields |-> StatAfterUpdate(c.stats, f, update_doc)],
                  !.stats_extra = ExtraAfterUpdate(c.stats_extra, update_doc)],
             raised |-> FALSE, modified |-> 1]

\* update_campaign_stats(campaign_uuid, stats_update): the campaign document
\* afterwards, whether the call raised, and the modified count it returns.
update_campaign_stats(c, stats_update, storesDollar) ==
    LET update_doc == BuildStatsUpdateDoc(stats_update)
    IN IF update_doc.ops = {} /\ update_doc.bare = {}
       THEN [campaign |-> c, raised |-> FALSE, modified |-> 0]
       ELSE IF UpdateDocRefusedByDriver(update_doc)
       THEN [campaign |-> c, raised |-> TRUE, modified |-> 0]
       ELSE IF ~c.exists
       THEN [campaign |-> c, raised |-> FALSE, modified |-> 0]
       ELSE IF UpdateDocRefusedByServer(update_doc, storesDollar)
       THEN [campaign |-> c, raised |-> TRUE, modified |-> 0]
       ELSE [campaign |-> [c EXCEPT
                  !.stats = [f \in StatFields |-> StatAfterUpdate(c.stats, f, update_doc)],
                  !.stats_extra = ExtraAfterUpdate(c.stats_extra, update_doc)],
             raised |-> FALSE, modified |-> 1]

\* as update_campaign_status, writing the timestamps but not the status field
update_campaign_status_timestamps_only(c, new_status) ==
    IF ~c.exists THEN [campaign |-> c, modified |-> 0]
    ELSE [campaign |-> [c EXCEPT
              !.started_at = IF new_status = "running" THEN TRUE ELSE @,
              !.finished_at = IF new_status = "finished" THEN TRUE ELSE @],
          modified |-> 1]

\* update_campaign_status(campaign_uuid, new_status)
update_campaign_status(c, new_status) ==
    IF ~c.exists THEN [campaign |-> c, modified |-> 0]
    ELSE [campaign |-> [c EXCEPT
              !.status = new_status,
              !.started_at = IF new_status = "running" THEN TRUE ELSE @,
              !.finished_at = IF new_status = "finished" THEN TRUE ELSE @],
          modified |-> 1]

----------------------------------------------------------------------------
(* Queries *)

\* as CampaignFound, answering a document for every id
CampaignFound_always(c) == TRUE

\* campaigns_db.get_campaign_by_id(id) answers a document
CampaignFound(c) == c.exists

\* subscriptions_db.get_subscribers_for_list(list, status_filter="confirmed")
get_subscribers_for_list(subs, list_id, status_filter) ==
    {s \in Subs : subs[<<s, list_id>>] = status_filter}

\* as FindEnabled, without the status condition of the query
FindEnabled_any_status(sdocs, ids) == {s \in ids : sdocs[s] # "deleted"}

\* subscribers collection .find({"_id": {"$in": ids}, "status": "enabled"})
FindEnabled(sdocs, ids) == {s \in ids : sdocs[s] = "enabled"}

\* as SubscriberSendable, checking only that there is a document
SubscriberSendable_if_found(sdocs, s) == sdocs[s] # "deleted"

\* subscribers_db.get_subscriber_by_id: is there a document, and is it enabled
SubscriberSendable(sdocs, s) == sdocs[s] # "deleted" /\ sdocs[s] = "enabled"

\* every ordering of a set: list(set) iterates in an unspecified order
Orderings(S) == {q \in [1..Cardinality(S) -> S] : \A a, b \in 1..Cardinality(S) : a # b => q[a] # q[b]}

Min(a, b) == IF a < b THEN a ELSE b

\* subscriber_ids_list[i:i + SUBSCRIBER_BATCH_SIZE], i counted from 0
BatchSlice(ids, i) ==
    [k \in 1..(Min(i + SUBSCRIBER_BATCH_SIZE, Len(ids)) - i) |-> ids[i + k]]

----------------------------------------------------------------------------
(* Request handlers.  A worker handles one status-update request at a time *)
(* and runs the send tasks inline, as the view does.                       *)

IdleWorker ==
    [pc |-> "idle", new_status |-> "none", lists |-> <<>>, li |-> 0,
     confirmed |-> {}, recipients |-> {}, ids |-> <<>>, i |-> 0,
     batch |-> <<>>, pos |-> 0, successful_sends |-> 0, failed_sends |-> 0,
     calls |-> <<>>,   \* the counter updates the current batch task has issued
     template_content |-> ""]

W(w) == workers[w]
Goto(w, rec) == workers' = [workers EXCEPT ![w] = rec]

\* CampaignStatusUpdateAPIView.put, lines 392-397: fetch the campaign, 404 if
\* there is none, validate the requested status.  At most limit requests
\* arrive; a request goes to the first free handler.
PutGet(w, new_status, limit) ==
    /\ W(w).pc = "idle"
    /\ \A v \in Workers : v < w => W(v).pc # "idle"
    /\ nReq < limit
    /\ nReq' = nReq + 1
    /\ IF campaign.exists
       THEN Goto(w, [IdleWorker EXCEPT !.pc = "put_update", !.new_status = new_status])
       ELSE UNCHANGED workers
    /\ UNCHANGED <<deployment, catalog, templates, campaign, subscribers, subscriptions, sentTo, nOps, statsCall>>

\* lines 399-407: write the status; on success and "running" run the
\* orchestrator inline.
PutUpdate(w) ==
    /\ W(w).pc = "put_update"
    /\ LET r == update_campaign_status(campaign, W(w).new_status)
       IN /\ campaign' = r.campaign
          /\ IF r.modified = 0 THEN Goto(w, IdleWorker)
             ELSE IF W(w).new_status = "running" THEN Goto(w, [W(w) EXCEPT !.pc = "orch_get"])
             ELSE Goto(w, [W(w) EXCEPT !.pc = "put_refetch"])
    /\ UNCHANGED <<deployment, catalog, templates, subscribers, subscriptions, sentTo, nReq, nOps, statsCall>>

\* lines 405-406: re-fetch and answer.
PutRefetch(w) ==
    /\ W(w).pc = "put_refetch"
    /\ Goto(w, IdleWorker)
    /\ UNCHANGED <<deployment, catalog, templates, campaign, subscribers, subscriptions, sentTo, nReq, nOps, statsCall>>

\* a task that goes on whatever the stored status
OrchGet_any_status(w) ==
    /\ W(w).pc = "orch_get"
    /\ IF ~CampaignFound(campaign)
       THEN Goto(w, [W(w) EXCEPT !.pc = "put_refetch"])
       ELSE IF campaign.target_list_ids = <<>>
       THEN Goto(w, [W(w) EXCEPT !.pc = "orch_empty_status"])
       ELSE Goto(w, [W(w) EXCEPT !.pc = "orch_confirmed", !.lists = campaign.target_list_ids, !.li = 1])
    /\ UNCHANGED <<deployment, catalog, templates, campaign, subscribers, subscriptions, sentTo, nReq, nOps, statsCall>>
\* process_campaign_sending_task, lines 151-163
OrchGet(w) ==
    /\ W(w).pc = "orch_get"
    /\ IF ~CampaignFound(campaign) \/ campaign.status # "running"
       THEN Goto(w, [W(w) EXCEPT !.pc = "put_refetch"])
       ELSE IF campaign.target_list_ids = <<>>
       THEN Goto(w, [W(w) EXCEPT !.pc = "orch_empty_status"])
       ELSE Goto(w, [W(w) EXCEPT !.pc = "orch_confirmed", !.lists = campaign.target_list_ids, !.li = 1])
    /\ UNCHANGED <<deployment, catalog, templates, campaign, subscribers, subscriptions, sentTo, nReq, nOps, statsCall>>

\* line 165
OrchEmptyStatus(w) ==
    /\ W(w).pc = "orch_empty_status"
    /\ campaign' = update_campaign_status(campaign, "finished").campaign
    /\ Goto(w, [W(w) EXCEPT !.pc = "orch_empty_stats"])
    /\ UNCHANGED <<deployment, catalog, templates, subscribers, subscriptions, sentTo, nReq, nOps, statsCall>>

\* lines 166-167; an exception of the call ends the request.
OrchEmptyStats(w) ==
    /\ W(w).pc = "orch_empty_stats"
    /\ LET r == update_campaign_stats(campaign, SetToSendOnlyPayload(0), storesDollarFields)
       IN /\ campaign' = r.campaign
          /\ IF r.raised THEN Goto(w, IdleWorker)
             ELSE Goto(w, [W(w) EXCEPT !.pc = "put_refetch"])
    /\ UNCHANGED <<deployment, catalog, templates, subscribers, subscriptions, sentTo, nReq, nOps, statsCall>>

\* after one target list: the next list, or lines 205 ff.
AfterList(rec) ==
    IF rec.li < Len(rec.lists)
    THEN [rec EXCEPT !.pc = "orch_confirmed", !.li = @ + 1, !.confirmed = {}]
    ELSE [rec EXCEPT !.pc = "orch_set_stats", !.li = 0, !.confirmed = {}]

\* line 187: the confirmed subscribers of the current target list
OrchConfirmed(w) ==
    /\ W(w).pc = "orch_confirmed"
    /\ LET confirmed_sub_ids == get_subscribers_for_list(subscriptions, W(w).lists[W(w).li], "confirmed")
       IN IF confirmed_sub_ids # {}
          THEN Goto(w, [W(w) EXCEPT !.pc = "orch_enabled", !.confirmed = confirmed_sub_ids])
          ELSE Goto(w, AfterList(W(w)))
    /\ UNCHANGED <<deployment, catalog, templates, campaign, subscribers, subscriptions, sentTo, nReq, nOps, statsCall>>

\* lines 197-202: keep those that are globally enabled
OrchEnabled(w) ==
    /\ W(w).pc = "orch_enabled"
    /\ Goto(w, AfterList([W(w) EXCEPT !.recipients = @ \cup FindEnabled(subscribers, W(w).confirmed)]))
    /\ UNCHANGED <<deployment, catalog, templates, campaign, subscribers, subscriptions, sentTo, nReq, nOps, statsCall>>

\* lines 205-214 up to the first batch: order the ids, write the stats.
OrchSetStats(w) ==
    /\ W(w).pc = "orch_set_stats"
    /\ \E subscriber_ids_list \in Orderings(W(w).recipients) :
         LET total_to_send == Len(subscriber_ids_list)
             r == update_campaign_stats(campaign, SetToSendPayload(total_to_send), storesDollarFields)
         IN /\ campaign' = r.campaign
            /\ IF r.raised THEN Goto(w, IdleWorker)
               ELSE IF total_to_send = 0 THEN Goto(w, [W(w) EXCEPT !.pc = "orch_finish_empty"])
               ELSE Goto(w, [W(w) EXCEPT !.pc = "batch_get", !.ids = subscriber_ids_list, !.i = 0,
                                         !.batch = BatchSlice(subscriber_ids_list, 0)])
    /\ UNCHANGED <<deployment, catalog, templates, subscribers, subscriptions, sentTo, nReq, nOps, statsCall>>

\* lines 211-214
OrchFinishEmpty(w) ==
    /\ W(w).pc = "orch_finish_empty"
    /\ campaign' = update_campaign_status(campaign, "finished").campaign
    /\ Goto(w, [W(w) EXCEPT !.pc = "put_refetch"])
    /\ UNCHANGED <<deployment, catalog, templates, subscribers, subscriptions, sentTo, nReq, nOps, statsCall>>

\* the loop of lines 217-221 after one batch call returned; line 231 after the last
AfterBatch(rec) ==
    IF rec.i + SUBSCRIBER_BATCH_SIZE < Len(rec.ids)
    THEN [rec EXCEPT !.pc = "batch_get", !.i = @ + SUBSCRIBER_BATCH_SIZE,
                     !.batch = BatchSlice(rec.ids, rec.i + SUBSCRIBER_BATCH_SIZE),
                     !.pos = 0, !.successful_sends = 0, !.failed_sends = 0]
    ELSE [rec EXCEPT !.pc = "put_refetch", !.i = @ + SUBSCRIBER_BATCH_SIZE, !.batch = <<>>,
                     !.pos = 0, !.successful_sends = 0, !.failed_sends = 0]

\* lines 94-100: the body of the campaign's template, "" when the campaign
\* has no template or the template is not found (a warning is printed)
TemplateContent(c, tdocs) ==
    IF c.template_id # "none" /\ c.template_id \in tdocs THEN "body_html" ELSE ""

\* send_email_to_subscriber_batch_task, lines 88-103
BatchGet(w) ==
    /\ W(w).pc = "batch_get"
    /\ IF ~CampaignFound(campaign)
       THEN Goto(w, AfterBatch([W(w) EXCEPT !.calls = <<>>]))
       ELSE Goto(w, [W(w) EXCEPT !.pc = "batch_fetch", !.pos = 1, !.calls = <<>>,
                                 !.successful_sends = 0, !.failed_sends = 0,
                                 !.template_content = TemplateContent(campaign, templates)])
    /\ UNCHANGED <<deployment, catalog, templates, campaign, subscribers, subscriptions, sentTo, nReq, nOps, statsCall>>

\* the loop of line 107 after one subscriber
AfterSubscriber(rec) ==
    IF rec.pos < Len(rec.batch)
    THEN [rec EXCEPT !.pc = "batch_fetch", !.pos = @ + 1]
    ELSE [rec EXCEPT !.pc = "batch_inc_sent"]

\* lines 108-112: fetch the subscriber, skip and count a failure if it is
\* missing or not enabled
BatchFetch(w) ==
    /\ W(w).pc = "batch_fetch"
    /\ IF SubscriberSendable(subscribers, W(w).batch[W(w).pos])
       THEN Goto(w, [W(w) EXCEPT !.pc = "batch_send"])
       ELSE Goto(w, AfterSubscriber([W(w) EXCEPT !.failed_sends = @ + 1]))
    /\ UNCHANGED <<deployment, catalog, templates, campaign, subscribers, subscriptions, sentTo, nReq, nOps, statsCall>>

\* lines 114-134: render and hand to the mailer; an exception counts a failure
BatchSend(w) ==
    /\ W(w).pc = "batch_send"
    /\ \E ok \in BOOLEAN :
         IF ok
         THEN /\ sentTo' = [sentTo EXCEPT ![W(w).batch[W(w).pos]] = @ + 1]
              /\ Goto(w, AfterSubscriber([W(w) EXCEPT !.successful_sends = @ + 1]))
         ELSE /\ UNCHANGED sentTo
              /\ Goto(w, AfterSubscriber([W(w) EXCEPT !.failed_sends = @ + 1]))
    /\ UNCHANGED <<deployment, catalog, templates, campaign, subscribers, subscriptions, nReq, nOps, statsCall>>

\* the conditions of lines 138 and 140
SentUpdateIssued(rec) == rec.successful_sends > 0

\* as FailedUpdateIssued, without the condition
FailedUpdateIssued_always(rec) == TRUE

FailedUpdateIssued(rec) == rec.failed_sends > 0

\* lines 138-139
BatchIncSent(w) ==
    /\ W(w).pc = "batch_inc_sent"
    /\ IF SentUpdateIssued(W(w))
       THEN LET payload == IncPayload("sent", W(w).successful_sends)
                r == update_campaign_stats(campaign, payload, storesDollarFields)
            IN /\ campaign' = r.campaign
               /\ IF r.raised THEN Goto(w, IdleWorker)
                  ELSE Goto(w, [W(w) EXCEPT !.pc = "batch_inc_failed", !.calls = Append(@, payload)])
       ELSE /\ UNCHANGED campaign
            /\ Goto(w, [W(w) EXCEPT !.pc = "batch_inc_failed"])
    /\ UNCHANGED <<deployment, catalog, templates, subscribers, subscriptions, sentTo, nReq, nOps, statsCall>>

\* lines 140-143
BatchIncFailed(w) ==
    /\ W(w).pc = "batch_inc_failed"
    /\ IF FailedUpdateIssued(W(w))
       THEN LET payload == IncPayload("failed", W(w).failed_sends)
                r == update_campaign_stats(campaign, payload, storesDollarFields)
            IN /\ campaign' = r.campaign
               /\ IF r.raised THEN Goto(w, IdleWorker)
                  ELSE Goto(w, AfterBatch([W(w) EXCEPT !.calls = Append(@, payload)]))
       ELSE /\ UNCHANGED campaign
            /\ Goto(w, AfterBatch(W(w)))
    /\ UNCHANGED <<deployment, catalog, templates, subscribers, subscriptions, sentTo, nReq, nOps, statsCall>>

----------------------------------------------------------------------------
(* Management calls that run beside the send: each is one database write. *)

\* subscribers_db.update_subscriber(uuid, {"status": status})
UpdateSubscriberStatus(s, status) ==
    /\ nOps < MaxOps
    /\ nOps' = nOps + 1
    /\ subscribers' = IF subscribers[s] = "deleted" THEN subscribers
                      ELSE [subscribers EXCEPT ![s] = status]
    /\ UNCHANGED <<deployment, catalog, templates, campaign, subscriptions, workers, sentTo, nReq, statsCall>>

\* subscribers_db.blocklist_subscribers_by_ids(uuids)
blocklist_subscribers_by_ids(ids) ==
    /\ nOps < MaxOps
    /\ nOps' = nOps + 1
    /\ subscribers' = [s \in Subs |-> IF s \in ids /\ subscribers[s] # "deleted"
                                      THEN "blocklisted" ELSE subscribers[s]]
    /\ UNCHANGED <<deployment, catalog, templates, campaign, subscriptions, workers, sentTo, nReq, statsCall>>

\* subscribers_db.delete_subscriber(uuid): the subscriptions stay
delete_subscriber(s) ==
    /\ nOps < MaxOps
    /\ nOps' = nOps + 1
    /\ subscribers' = [subscribers EXCEPT ![s] = "deleted"]
    /\ UNCHANGED <<deployment, catalog, templates, campaign, subscriptions, workers, sentTo, nReq, statsCall>>

\* campaigns_db.delete_campaign(uuid)
delete_campaign ==
    /\ nOps < MaxOps
    /\ nOps' = nOps + 1
    /\ campaign' = [campaign EXCEPT !.exists = FALSE]
    /\ UNCHANGED <<deployment, catalog, templates, subscribers, subscriptions, workers, sentTo, nReq, statsCall>>

BlocklistChoices == {{"s2"}, Subs}
TargetChoices == {<<>>, <<"l1">>, <<"l1", "l2">>}

\* CampaignDetailAPIView.put -> campaigns_db.update_campaign(uuid, validated_data):
\* a full update $sets every input field, the status among them
update_campaign(status, target_list_ids) ==
    /\ nOps < MaxOps
    /\ nOps' = nOps + 1
    /\ campaign' = IF campaign.exists
                   THEN [campaign EXCEPT !.status = status, !.target_list_ids = target_list_ids]
                   ELSE campaign
    /\ UNCHANGED <<deployment, catalog, templates, subscribers, subscriptions, workers, sentTo, nReq, statsCall>>

----------------------------------------------------------------------------
\* create_campaign with the default status: the document of lines 28-50
\* send_at of a campaign created without one: None
NoSendAt == -1

NewCampaign(target_list_ids) ==
    [exists |-> TRUE, status |-> "draft", started_at |-> FALSE, finished_at |-> FALSE,
     target_list_ids |-> target_list_ids, stats |-> ZeroStats, stats_extra |-> {},
     template_id |-> "none", send_at |-> NoSendAt]

NoCall == [payload |-> {}, before |-> ZeroStats, raised |-> FALSE, modified |-> 0]

\* the steps of one request handler
Handler(w, limit) ==
    \/ \E new_status \in CampaignStatuses : PutGet(w, new_status, limit)
    \/ PutUpdate(w)
    \/ PutRefetch(w)
    \/ OrchGet(w)
    \/ OrchEmptyStatus(w)
    \/ OrchEmptyStats(w)
    \/ OrchConfirmed(w)
    \/ OrchEnabled(w)
    \/ OrchSetStats(w)
    \/ OrchFinishEmpty(w)
    \/ BatchGet(w)
    \/ BatchFetch(w)
    \/ BatchSend(w)
    \/ BatchIncSent(w)
    \/ BatchIncFailed(w)

----------------------------------------------------------------------------
(* Spec: two request handlers interleave on one campaign.  s1 is confirmed *)
(* on both lists, s2 on l1 only; there is no third subscriber.             *)

InitSubscriptions ==
    [p \in Subs \X Lists |->
        IF p \in {<<"s1", "l1">>, <<"s1", "l2">>, <<"s2", "l1">>} THEN "confirmed"
        ELSE IF p = <<"s2", "l2">> THEN "unconfirmed"
        ELSE "none"]

Init ==
    /\ storesDollarFields \in BOOLEAN
    /\ SUBSCRIBER_BATCH_SIZE = 1
    /\ campaign \in {NewCampaign(t) : t \in TargetChoices}
    /\ subscribers \in {f \in [Subs -> SubscriberStatuses \cup {"deleted"}] :
                          /\ f["s1"] \in {"enabled", "blocklisted"}
                          /\ f["s2"] \in {"enabled", "disabled"}
                          /\ f["s3"] = "deleted"}
    /\ subscriptions = InitSubscriptions
    /\ workers = [w \in Workers |-> IdleWorker]
    /\ sentTo = [s \in Subs |-> 0]
    /\ nReq = 0
    /\ nOps = 0
    /\ statsCall = NoCall
    /\ templates = {}
    /\ CatalogUnused

Next == \E w \in Workers : Handler(w, MaxRequests)

Spec == Init /\ [][Next]_vars

----------------------------------------------------------------------------
(* SpecManaged: one request handler, with subscriber and campaign          *)
(* management calls arriving between its database calls; the subscribers   *)
(* and subscriptions are those of Spec, both subscribers enabled.          *)

InitManaged ==
    /\ storesDollarFields \in BOOLEAN
    /\ SUBSCRIBER_BATCH_SIZE = 1
    /\ campaign = NewCampaign(<<"l1", "l2">>)
    /\ subscribers = [s \in Subs |-> IF s = "s3" THEN "deleted" ELSE "enabled"]
    /\ subscriptions = InitSubscriptions
    /\ workers = [w \in Workers |-> IdleWorker]
    /\ sentTo = [s \in Subs |-> 0]
    /\ nReq = 0
    /\ nOps = 0
    /\ statsCall = NoCall
    /\ templates = {}
    /\ CatalogUnused

Management ==
    \/ \E s \in Subs, status \in SubscriberStatuses : UpdateSubscriberStatus(s, status)
    \/ \E ids \in BlocklistChoices : blocklist_subscribers_by_ids(ids)
    \/ \E s \in Subs : delete_subscriber(s)
    \/ delete_campaign
    \/ \E status \in CampaignStatuses, t \in TargetChoices : update_campaign(status, t)

NextManaged == Handler(1, MaxManagedRequests) \/ Management

SpecManaged == InitManaged /\ [][NextManaged]_vars

----------------------------------------------------------------------------
(* SpecResolve: process_campaign_sending_task entered for a running        *)
(* campaign, over every combination of subscription and subscriber status. *)

OrchestratorStep(w) ==
    \/ OrchGet(w)
    \/ OrchEmptyStatus(w)
    \/ OrchEmptyStats(w)
    \/ OrchConfirmed(w)
    \/ OrchEnabled(w)
    \/ OrchSetStats(w)
    \/ OrchFinishEmpty(w)
    \/ BatchGet(w)
    \/ BatchFetch(w)
    \/ BatchSend(w)
    \/ BatchIncSent(w)
    \/ BatchIncFailed(w)
    \/ PutRefetch(w)

InitResolve ==
    /\ storesDollarFields \in BOOLEAN
    /\ SUBSCRIBER_BATCH_SIZE \in 1..MaxBatchSize
    /\ campaign \in {update_campaign_status(NewCampaign(t), "running").campaign : t \in TargetChoices}
    /\ subscribers \in [Subs -> SubscriberStatuses]
    /\ subscriptions \in [Subs \X Lists -> {"confirmed", "unconfirmed"}]
    /\ workers = [w \in Workers |-> IF w = 1 THEN [IdleWorker EXCEPT !.pc = "orch_get", !.new_status = "running"]
                                    ELSE IdleWorker]
    /\ sentTo = [s \in Subs |-> 0]
    /\ nReq = 1
    /\ nOps = 0
    /\ statsCall = NoCall
    /\ templates = {}
    /\ CatalogUnused

NextResolve == OrchestratorStep(1)

SpecResolve == InitResolve /\ [][NextResolve]_vars

----------------------------------------------------------------------------
(* SpecStats: update_campaign_stats called directly with each payload      *)
(* shape, on a stored campaign.                                            *)

StatsPayloads ==
    {IncPayload(f, n) : f \in {"sent", "failed"}, n \in 1..MaxStat}
    \cup {SetToSendPayload(k) : k \in 0..MaxStat}
    \cup {SetToSendOnlyPayload(0)}
    \cup {DirectSetPayload("to_send", n) : n \in 0..MaxStat}
    \cup {BareIncPayload("sent", n) : n \in 1..MaxStat}
    \cup {PerFieldOpPayload("sent", "$inc", 1), {}}

InitStats ==
    /\ storesDollarFields \in BOOLEAN
    /\ SUBSCRIBER_BATCH_SIZE = 2
    /\ campaign \in {NewCampaign(<<>>), [NewCampaign(<<>>) EXCEPT !.exists = FALSE]}
    /\ subscribers = [s \in Subs |-> "enabled"]
    /\ subscriptions = InitSubscriptions
    /\ workers = [w \in Workers |-> IdleWorker]
    /\ sentTo = [s \in Subs |-> 0]
    /\ nReq = 0
    /\ nOps = 0
    /\ statsCall = NoCall
    /\ templates = {}
    /\ CatalogUnused

\* one call update_campaign_stats(uuid, payload); counters stay within MaxStat
CallUpdateCampaignStats(payload) ==
    LET r == update_campaign_stats(campaign, payload, storesDollarFields)
    IN /\ \A f \in StatFields : r.campaign.stats[f] <= MaxStat
       /\ campaign' = r.campaign
       /\ statsCall' = [payload |-> payload, before |-> campaign.stats,
                        raised |-> r.raised, modified |-> r.modified]
       /\ UNCHANGED <<deployment, catalog, templates, subscribers, subscriptions, workers, sentTo, nReq, nOps>>

NextStats == \E payload \in StatsPayloads : CallUpdateCampaignStats(payload)

SpecStats == InitStats /\ [][NextStats]_vars

----------------------------------------------------------------------------
(* SpecTemplate: process_campaign_sending_task entered for a running       *)
(* campaign that references template t1, which is stored or not and may    *)
(* be deleted while the send runs.                                         *)

\* templates_db.delete_template(uuid): the campaigns keep their template_id
delete_template(t) ==
    /\ nOps < MaxOps
    /\ nOps' = nOps + 1
    /\ templates' = templates \ {t}
    /\ UNCHANGED <<deployment, catalog, campaign, subscribers, subscriptions, workers, sentTo, nReq, statsCall>>

InitTemplate ==
    /\ storesDollarFields \in BOOLEAN
    /\ SUBSCRIBER_BATCH_SIZE \in 1..MaxBatchSize
    /\ campaign \in {[update_campaign_status(NewCampaign(t), "running").campaign
                         EXCEPT !.template_id = "t1"] : t \in TargetChoices}
    /\ subscribers \in {f \in [Subs -> SubscriberStatuses \cup {"deleted"}] :
                          /\ f["s1"] \in {"enabled", "blocklisted"}
                          /\ f["s2"] \in {"enabled", "disabled"}
                          /\ f["s3"] = "deleted"}
    /\ subscriptions = InitSubscriptions
    /\ workers = [w \in Workers |-> IF w = 1 THEN [IdleWorker EXCEPT !.pc = "orch_get", !.new_status = "running"]
                                    ELSE IdleWorker]
    /\ sentTo = [s \in Subs |-> 0]
    /\ nReq = 1
    /\ nOps = 0
    /\ statsCall = NoCall
    /\ templates \in {{}, {"t1"}}
    /\ CatalogUnused

NextTemplate == OrchestratorStep(1) \/ delete_template("t1")

SpecTemplate == InitTemplate /\ [][NextTemplate]_vars

----------------------------------------------------------------------------
(* templates_db: create_template, update_template, set_template_as_default *)
(* as the sequences of collection calls they make.                         *)

MaxTemplateCalls == 3

Call(p) == dal[p]
CallGoto(p, rec) == dal' = [dal EXCEPT ![p] = rec]

\* update_many({"template_type": type, "is_default": True, "uuid": {"$ne": except}},
\*             {"$set": {"is_default": False}})
UnsetDefaults(docs, stored, type, except) ==
    [t \in TemplateIds |->
        IF t \in stored /\ docs[t].template_type = type /\ docs[t].is_default /\ t # except
        THEN [docs[t] EXCEPT !.is_default = FALSE]
        ELSE docs[t]]

\* the fields an update_template request may carry; "absent" = not in update_data
UpdateData == [is_default : {"true", "false", "absent"}, template_type : TemplateTypes \cup {"absent"}]

\* update_one({"uuid": uuid}, {"$set": update_data})
ApplyUpdateData(doc, update_data) ==
    [template_type |-> IF update_data.template_type = "absent" THEN doc.template_type
                       ELSE update_data.template_type,
     is_default |-> IF update_data.is_default = "absent" THEN doc.is_default
                    ELSE update_data.is_default = "true"]

TemplateCall(op, pc, uuid, type, is_default, data) ==
    [op |-> op, pc |-> pc, template_uuid |-> uuid, template_type |-> type,
     is_default |-> is_default, update_data |-> data]

NoData == [is_default |-> "absent", template_type |-> "absent"]

\* set_template_as_default, lines 92-94: find the template, False if missing
SetDefaultFind(p, t) ==
    /\ Call(p).pc = "idle"
    /\ nOps < MaxTemplateCalls
    /\ nOps' = nOps + 1
    /\ IF t \in templates
       THEN CallGoto(p, TemplateCall("set_template_as_default", "unset", t,
                                     templateDocs[t].template_type, TRUE, NoData))
       ELSE UNCHANGED dal
    /\ UNCHANGED <<sending, templates, templateDocs>>

\* lines 97-100: unset the other defaults of the type read at line 92
SetDefaultUnset(p) ==
    /\ Call(p).op = "set_template_as_default" /\ Call(p).pc = "unset"
    /\ templateDocs' = UnsetDefaults(templateDocs, templates, Call(p).template_type, Call(p).template_uuid)
    /\ CallGoto(p, [Call(p) EXCEPT !.pc = "set"])
    /\ UNCHANGED <<sending, templates, nOps>>

\* lines 102-106: set this one as default
SetDefaultSet(p) ==
    /\ Call(p).op = "set_template_as_default" /\ Call(p).pc = "set"
    /\ templateDocs' = IF Call(p).template_uuid \in templates
                       THEN [templateDocs EXCEPT ![Call(p).template_uuid].is_default = TRUE]
                       ELSE templateDocs
    /\ CallGoto(p, IdleCall)
    /\ UNCHANGED <<sending, templates, nOps>>

\* create_template, lines 20-24: with is_default, unset the defaults of the type
CreateTemplateUnset(p, t, type, is_default) ==
    /\ Call(p).pc = "idle"
    /\ nOps < MaxTemplateCalls
    /\ t \notin templates
    /\ nOps' = nOps + 1
    /\ templateDocs' = IF is_default THEN UnsetDefaults(templateDocs, templates, type, "none")
                       ELSE templateDocs
    /\ CallGoto(p, TemplateCall("create_template", "insert", t, type, is_default, NoData))
    /\ UNCHANGED <<sending, templates>>

\* lines 26-40: insert the document
CreateTemplateInsert(p) ==
    /\ Call(p).op = "create_template" /\ Call(p).pc = "insert"
    /\ templates' = templates \cup {Call(p).template_uuid}
    /\ templateDocs' = [templateDocs EXCEPT ![Call(p).template_uuid] =
                           [template_type |-> Call(p).template_type, is_default |-> Call(p).is_default]]
    /\ CallGoto(p, IdleCall)
    /\ UNCHANGED <<sending, nOps>>

\* update_template, lines 70-72: with is_default True, read the stored type
UpdateTemplateFind(p, t, update_data) ==
    /\ Call(p).pc = "idle"
    /\ nOps < MaxTemplateCalls
    /\ nOps' = nOps + 1
    /\ CallGoto(p, TemplateCall("update_template",
                                IF update_data.is_default = "true" /\ t \in templates THEN "unset" ELSE "set",
                                t, templateDocs[t].template_type, FALSE, update_data))
    /\ UNCHANGED <<sending, templates, templateDocs>>

\* lines 73-76: unset the other defaults of the stored type
UpdateTemplateUnset(p) ==
    /\ Call(p).op = "update_template" /\ Call(p).pc = "unset"
    /\ templateDocs' = UnsetDefaults(templateDocs, templates, Call(p).template_type, Call(p).template_uuid)
    /\ CallGoto(p, [Call(p) EXCEPT !.pc = "set"])
    /\ UNCHANGED <<sending, templates, nOps>>

\* lines 78-87: $set the update data on the template
UpdateTemplateSet(p) ==
    /\ Call(p).op = "update_template" /\ Call(p).pc = "set"
    /\ templateDocs' = IF Call(p).template_uuid \in templates
                       THEN [templateDocs EXCEPT ![Call(p).template_uuid] = ApplyUpdateData(@, Call(p).update_data)]
                       ELSE templateDocs
    /\ CallGoto(p, IdleCall)
    /\ UNCHANGED <<sending, templates, nOps>>

\* the campaign and subscribers of the template specifications: not used
SendingUnused ==
    /\ storesDollarFields = TRUE
    /\ SUBSCRIBER_BATCH_SIZE = 1
    /\ campaign = NewCampaign(<<>>)
    /\ subscribers = [s \in Subs |-> "deleted"]
    /\ subscriptions = [q \in Subs \X Lists |-> "none"]
    /\ workers = [w \in Workers |-> IdleWorker]
    /\ sentTo = [s \in Subs |-> 0]
    /\ nReq = 0
    /\ statsCall = NoCall

\* template documents with at most one default per type
DefaultsUnique(docs, stored) ==
    \A type \in TemplateTypes :
        Cardinality({t \in stored : docs[t].template_type = type /\ docs[t].is_default}) <= 1

(* SpecDefaults: two callers run set_template_as_default concurrently on   *)
(* three stored templates.                                                 *)
InitDefaults ==
    /\ SendingUnused
    /\ StoreUnused
    /\ nOps = 0
    /\ templates = TemplateIds
    /\ templateDocs \in {d \in [TemplateIds -> [template_type : TemplateTypes, is_default : BOOLEAN]] :
                           /\ d["t1"].template_type = "campaign" /\ d["t2"].template_type = "campaign"
                           /\ DefaultsUnique(d, TemplateIds)}
    /\ dal = [p \in Callers |-> IdleCall]

NextDefaults ==
    \E p \in Callers :
        \/ \E t \in TemplateIds : SetDefaultFind(p, t)
        \/ SetDefaultUnset(p)
        \/ SetDefaultSet(p)

SpecDefaults == InitDefaults /\ [][NextDefaults]_vars

(* SpecTemplateCalls: one caller makes create_template, update_template    *)
(* and set_template_as_default calls one after the other.                  *)
InitTemplateCalls ==
    /\ SendingUnused
    /\ StoreUnused
    /\ nOps = 0
    /\ templates = {"t1", "t2"}
    /\ templateDocs \in {d \in [TemplateIds -> [template_type : TemplateTypes, is_default : BOOLEAN]] :
                           /\ d["t3"] = NoTemplateDocs["t3"]
                           /\ DefaultsUnique(d, {"t1", "t2"})}
    /\ dal = [p \in Callers |-> IdleCall]

NextTemplateCalls ==
    \/ \E t \in TemplateIds : SetDefaultFind(1, t)
    \/ SetDefaultUnset(1)
    \/ SetDefaultSet(1)
    \/ \E t \in TemplateIds, type \in TemplateTypes, is_default \in BOOLEAN :
         CreateTemplateUnset(1, t, type, is_default)
    \/ CreateTemplateInsert(1)
    \/ \E t \in TemplateIds, update_data \in UpdateData : UpdateTemplateFind(1, t, update_data)
    \/ UpdateTemplateUnset(1)
    \/ UpdateTemplateSet(1)

SpecTemplateCalls == InitTemplateCalls /\ [][NextTemplateCalls]_vars

----------------------------------------------------------------------------
(* Tracking events (tracking_events_db.py, the tracking views) and the     *)
(* periodic aggregation task of tasks.py.                                  *)

MaxEvents == 3
MaxAggregations == 3
EventTypes == {"view", "click"}
LinkUuids == {1, 2}

\* the part of the state the tracking specification leaves alone
untracked == <<storesDollarFields, SUBSCRIBER_BATCH_SIZE, subscribers, subscriptions, workers,
               sentTo, nReq, statsCall, templates, templateDocs, subscriber_docs,
               mailing_lists, subscription_docs, links, next_id>>

\* create_view_event / create_click_event: the inserted document; the
\* timestamp is the number of aggregation runs started so far
NewEvent(event_type, now) ==
    [event_type |-> event_type, timestamp |-> now, processed_for_stats_at |-> "None"]

\* get_unprocessed_events_for_campaign: the _ids (positions) of the events of
\* the type whose processed_for_stats_at is None (fewer than the limit of 1000)
get_unprocessed_events_for_campaign(events, event_type) ==
    {i \in 1..Len(events) : /\ events[i].event_type = event_type
                            /\ events[i].processed_for_stats_at = "None"}

\* an update that marks every stored event
mark_events_as_processed_all(events, event_ids) ==
    [i \in 1..Len(events) |-> [events[i] EXCEPT !.processed_for_stats_at = "now"]]
\* mark_events_as_processed: update_many on the _ids
mark_events_as_processed(events, event_ids) ==
    [i \in 1..Len(events) |->
        IF i \in event_ids THEN [events[i] EXCEPT !.processed_for_stats_at = "now"]
        ELSE events[i]]

\* a task that adds every stored event to the counters again on each run
aggregate_tracking_stats_task_recount(c, events) ==
    [campaign |-> [c EXCEPT !.stats.views = @ + Cardinality({i \in 1..Len(events) : events[i].event_type = "view"}),
                            !.stats.clicks = @ + Cardinality({i \in 1..Len(events) : events[i].event_type = "click"})],
     events |-> events]
\* aggregate_tracking_stats_task, lines 285-292: comments and pass
aggregate_tracking_stats_task(c, events) == [campaign |-> c, events |-> events]

\* TrackViewAPI.get: records the view, whatever the campaign and subscriber
TrackView ==
    /\ Len(tracking_events) < MaxEvents
    /\ tracking_events' = Append(tracking_events, NewEvent("view", nOps))
    /\ UNCHANGED <<untracked, campaign, dal, nOps>>

\* TrackClickAPI.get: records the click when the link is stored
TrackClick(link_uuid) ==
    /\ Len(tracking_events) < MaxEvents
    /\ tracking_events' = IF \E l \in links : l.uuid = link_uuid
                          THEN Append(tracking_events, NewEvent("click", nOps))
                          ELSE tracking_events
    /\ UNCHANGED <<untracked, campaign, dal, nOps>>

\* the task starts: line 284, the print
AggregateStart(p) ==
    /\ Call(p).pc = "idle"
    /\ nOps < MaxAggregations
    /\ nOps' = nOps + 1
    /\ CallGoto(p, [op |-> "aggregate_tracking_stats_task", pc |-> "pass"])
    /\ UNCHANGED <<untracked, campaign, tracking_events>>

\* the rest of the task body
AggregateBody(p) ==
    /\ Call(p).op = "aggregate_tracking_stats_task" /\ Call(p).pc = "pass"
    /\ LET r == aggregate_tracking_stats_task(campaign, tracking_events)
       IN /\ campaign' = r.campaign
          /\ tracking_events' = r.events
    /\ CallGoto(p, IdleCall)
    /\ UNCHANGED <<untracked, nOps>>

(* SpecAggregate: views and clicks are recorded while two workers run the  *)
(* aggregation task.                                                       *)
InitAggregate ==
    /\ SendingUnused
    /\ nOps = 0
    /\ templates = {}
    /\ templateDocs = NoTemplateDocs
    /\ dal = [p \in Callers |-> IdleCall]
    /\ tracking_events = <<>>
    /\ subscriber_docs = {}
    /\ mailing_lists = {}
    /\ subscription_docs = {}
    /\ links = {[uuid |-> 1, url |-> "u1"]}
    /\ next_id = 1

NextAggregate ==
    \/ TrackView
    \/ \E link_uuid \in LinkUuids : TrackClick(link_uuid)
    \/ \E p \in Callers : AggregateStart(p) \/ AggregateBody(p)

SpecAggregate == InitAggregate /\ [][NextAggregate]_vars

----------------------------------------------------------------------------
(* Subscribers, mailing lists and subscriptions as documents               *)
(* (subscribers_db.py, mailing_lists_db.py, subscriptions_db.py): each     *)
(* data-access function is the sequence of collection calls it makes, and  *)
(* callers interleave between the calls.  No collection has an index.      *)

MaxStoreCalls == 3
Emails == {"Ann@x.org", "ann@x.org", "bob@x.org"}
SubscriptionStatuses == {"unconfirmed", "confirmed"}

\* str.lower() on the addresses of the model
Lower(email) == IF email = "Ann@x.org" THEN "ann@x.org" ELSE email

\* the part of the state no call on these three collections changes
unstored == <<storesDollarFields, SUBSCRIBER_BATCH_SIZE, campaign, subscribers, subscriptions,
              workers, sentTo, nReq, statsCall, templates, templateDocs, tracking_events, links>>

\* the call accepted: one more call, and its position and locals
StoreCall(p, rec) ==
    /\ Call(p).pc = "idle"
    /\ nOps < MaxStoreCalls
    /\ nOps' = nOps + 1
    /\ CallGoto(p, rec)

SubscriberIds == {d._id : d \in subscriber_docs}

\* create_subscriber, lines 20-31: lower-case the email, find_one on it and
\* raise ValueError when a document has it
CreateSubscriberFind(p, email) ==
    /\ StoreCall(p, IF \E d \in subscriber_docs : d.email = Lower(email)
                    THEN IdleCall
                    ELSE [op |-> "create_subscriber", pc |-> "insert", email |-> Lower(email)])
    /\ UNCHANGED <<unstored, subscriber_docs, mailing_lists, subscription_docs, next_id>>

\* lines 33-35: insert_one, with the default status
CreateSubscriberInsert(p) ==
    /\ Call(p).op = "create_subscriber" /\ Call(p).pc = "insert"
    /\ next_id' = next_id + 1
    /\ subscriber_docs' = subscriber_docs \cup {[_id |-> next_id + 1, email |-> Call(p).email, status |-> "enabled"]}
    /\ CallGoto(p, IdleCall)
    /\ UNCHANGED <<unstored, mailing_lists, subscription_docs, nOps>>

\* update_subscriber with an email, lines 78-82: find_one another subscriber
\* with the lower-cased email and raise ValueError when there is one
UpdateSubscriberFind(p, subscriber_uuid, email) ==
    /\ StoreCall(p, IF \E d \in subscriber_docs : d.email = Lower(email) /\ d._id # subscriber_uuid
                    THEN IdleCall
                    ELSE [op |-> "update_subscriber", pc |-> "update",
                          subscriber_uuid |-> subscriber_uuid, email |-> Lower(email)])
    /\ UNCHANGED <<unstored, subscriber_docs, mailing_lists, subscription_docs, next_id>>

\* lines 84-93: update_one on the uuid
UpdateSubscriberSet(p) ==
    /\ Call(p).op = "update_subscriber" /\ Call(p).pc = "update"
    /\ subscriber_docs' = {IF d._id = Call(p).subscriber_uuid THEN [d EXCEPT !.email = Call(p).email] ELSE d :
                             d \in subscriber_docs}
    /\ CallGoto(p, IdleCall)
    /\ UNCHANGED <<unstored, mailing_lists, subscription_docs, next_id, nOps>>

\* delete_subscriber, lines 100-105: delete_one on the subscribers collection
DeleteSubscriberDoc(p, subscriber_uuid) ==
    /\ StoreCall(p, IdleCall)
    /\ subscriber_docs' = {d \in subscriber_docs : d._id # subscriber_uuid}
    /\ UNCHANGED <<unstored, mailing_lists, subscription_docs, next_id>>

\* create_mailing_list: insert_one
CreateMailingList(p) ==
    /\ StoreCall(p, IdleCall)
    /\ next_id' = next_id + 1
    /\ mailing_lists' = mailing_lists \cup {next_id + 1}
    /\ UNCHANGED <<unstored, subscriber_docs, subscription_docs>>

\* delete_mailing_list, lines 125-129: find the list, return 0 when missing
DeleteMailingListFind(p, list_uuid) ==
    /\ StoreCall(p, IF list_uuid \in mailing_lists
                    THEN [op |-> "delete_mailing_list", pc |-> "delete_one", list_object_id |-> list_uuid]
                    ELSE IdleCall)
    /\ UNCHANGED <<unstored, subscriber_docs, mailing_lists, subscription_docs, next_id>>

\* line 132: delete the list; line 134: go on only when it was deleted
DeleteMailingListDelete(p) ==
    /\ Call(p).op = "delete_mailing_list" /\ Call(p).pc = "delete_one"
    /\ mailing_lists' = mailing_lists \ {Call(p).list_object_id}
    /\ CallGoto(p, IF Call(p).list_object_id \in mailing_lists
                   THEN [Call(p) EXCEPT !.pc = "delete_many"]
                   ELSE IdleCall)
    /\ UNCHANGED <<unstored, subscriber_docs, subscription_docs, next_id, nOps>>

\* line 136: delete the subscriptions of the list
DeleteMailingListSubscriptions(p) ==
    /\ Call(p).op = "delete_mailing_list" /\ Call(p).pc = "delete_many"
    /\ subscription_docs' = {d \in subscription_docs : d.list_id # Call(p).list_object_id}
    /\ CallGoto(p, IdleCall)
    /\ UNCHANGED <<unstored, subscriber_docs, mailing_lists, next_id, nOps>>

\* add_subscription as PublicSubscriptionCreateAPIView.post calls it, for a
\* subscriber and a list it has just looked up; lines 23-44: find_one on the
\* pair, and with a document found, update it when the status differs
AddSubscriptionFind(p, subscriber_object_id, list_object_id, status) ==
    /\ subscriber_object_id \in SubscriberIds
    /\ list_object_id \in mailing_lists
    /\ LET found == {d \in subscription_docs : /\ d.subscriber_id = subscriber_object_id
                                               /\ d.list_id = list_object_id}
       IN \/ /\ found = {}
             /\ StoreCall(p, [op |-> "add_subscription", pc |-> "insert_one",
                              subscriber_id |-> subscriber_object_id,
                              list_id |-> list_object_id, status |-> status])
          \/ \E existing_subscription \in found :
                StoreCall(p, IF existing_subscription.status # status
                             THEN [op |-> "add_subscription", pc |-> "update_one",
                                   _id |-> existing_subscription._id, status |-> status]
                             ELSE IdleCall)
    /\ UNCHANGED <<unstored, subscriber_docs, mailing_lists, subscription_docs, next_id>>

\* lines 38-41: update_one on the _id found
AddSubscriptionUpdate(p) ==
    /\ Call(p).op = "add_subscription" /\ Call(p).pc = "update_one"
    /\ subscription_docs' = {IF d._id = Call(p)._id THEN [d EXCEPT !.status = Call(p).status] ELSE d :
                               d \in subscription_docs}
    /\ CallGoto(p, IdleCall)
    /\ UNCHANGED <<unstored, subscriber_docs, mailing_lists, next_id, nOps>>

\* lines 47-57: insert_one
AddSubscriptionInsert(p) ==
    /\ Call(p).op = "add_subscription" /\ Call(p).pc = "insert_one"
    /\ next_id' = next_id + 1
    /\ subscription_docs' = subscription_docs \cup
           {[_id |-> next_id + 1, subscriber_id |-> Call(p).subscriber_id,
             list_id |-> Call(p).list_id, status |-> Call(p).status]}
    /\ CallGoto(p, IdleCall)
    /\ UNCHANGED <<unstored, subscriber_docs, mailing_lists, nOps>>

\* nothing of the send pipeline, the templates or the tracking is in use
OnlyStore ==
    /\ SendingUnused
    /\ nOps = 0
    /\ templates = {}
    /\ templateDocs = NoTemplateDocs
    /\ dal = [p \in Callers |-> IdleCall]
    /\ tracking_events = <<>>

(* SpecStore: one caller creates and deletes subscribers, lists and        *)
(* subscriptions, one call after the other.                                *)
InitStore ==
    /\ OnlyStore
    /\ links = {}
    /\ subscriber_docs = {[_id |-> 1, email |-> "ann@x.org", status |-> "enabled"]}
    /\ mailing_lists = {2}
    /\ subscription_docs \in {{}, {[_id |-> 3, subscriber_id |-> 1, list_id |-> 2, status |-> "confirmed"]}}
    /\ next_id = 3

NextStore ==
    \/ \E email \in Emails : CreateSubscriberFind(1, email)
    \/ CreateSubscriberInsert(1)
    \/ \E uuid \in 1..next_id : DeleteSubscriberDoc(1, uuid)
    \/ CreateMailingList(1)
    \/ \E uuid \in 1..next_id : DeleteMailingListFind(1, uuid)
    \/ DeleteMailingListDelete(1)
    \/ DeleteMailingListSubscriptions(1)
    \/ \E s, l \in 1..next_id, status \in SubscriptionStatuses : AddSubscriptionFind(1, s, l, status)
    \/ AddSubscriptionUpdate(1)
    \/ AddSubscriptionInsert(1)

SpecStore == InitStore /\ [][NextStore]_vars

(* SpecSubscribe: two callers run add_subscription concurrently for one    *)
(* subscriber and two lists.                                               *)
InitSubscribe ==
    /\ OnlyStore
    /\ links = {}
    /\ subscriber_docs = {[_id |-> 1, email |-> "ann@x.org", status |-> "enabled"]}
    /\ mailing_lists = {2, 3}
    /\ subscription_docs = {}
    /\ next_id = 3

NextSubscribe ==
    \E p \in Callers :
        \/ \E l \in mailing_lists, status \in SubscriptionStatuses : AddSubscriptionFind(p, 1, l, status)
        \/ AddSubscriptionUpdate(p)
        \/ AddSubscriptionInsert(p)

SpecSubscribe == InitSubscribe /\ [][NextSubscribe]_vars

(* SpecSubscribers: two callers run create_subscriber and update_subscriber *)
(* concurrently.                                                           *)
InitSubscribers ==
    /\ OnlyStore
    /\ links = {}
    /\ subscriber_docs \in {{}, {[_id |-> 1, email |-> "bob@x.org", status |-> "enabled"]}}
    /\ mailing_lists = {}
    /\ subscription_docs = {}
    /\ next_id = 1

NextSubscribers ==
    \E p \in Callers :
        \/ \E email \in Emails : CreateSubscriberFind(p, email)
        \/ CreateSubscriberInsert(p)
        \/ \E uuid \in SubscriberIds, email \in Emails : UpdateSubscriberFind(p, uuid, email)
        \/ UpdateSubscriberSet(p)

SpecSubscribers == InitSubscribers /\ [][NextSubscribers]_vars

----------------------------------------------------------------------------
(* Links (links_db.py) *)
Urls == {"u1", "u2"}

\* the part of the state get_or_create_link leaves alone
unlinked == <<storesDollarFields, SUBSCRIBER_BATCH_SIZE, campaign, subscribers, subscriptions,
              workers, sentTo, nReq, statsCall, templates, templateDocs, tracking_events,
              subscriber_docs, mailing_lists, subscription_docs>>

\* get_or_create_link, lines 20-22: find_one on the url, exact match
GetOrCreateLinkFind(p, url) ==
    /\ LET found == {l \in links : l.url = url}
       IN \/ /\ found = {}
             /\ StoreCall(p, [op |-> "get_or_create_link", pc |-> "insert_one", url |-> url])
          \/ \E link_doc \in found :
                StoreCall(p, [op |-> "get_or_create_link", pc |-> "return", url |-> url,
                              uuid |-> link_doc.uuid, created |-> FALSE])
    /\ UNCHANGED <<unlinked, links, next_id>>

\* lines 23-32: a new uuid, insert_one, created = True
GetOrCreateLinkInsert(p) ==
    /\ Call(p).op = "get_or_create_link" /\ Call(p).pc = "insert_one"
    /\ next_id' = next_id + 1
    /\ links' = links \cup {[uuid |-> next_id + 1, url |-> Call(p).url]}
    /\ CallGoto(p, [op |-> "get_or_create_link", pc |-> "return", url |-> Call(p).url,
                    uuid |-> next_id + 1, created |-> TRUE])
    /\ UNCHANGED <<unlinked, nOps>>

\* line 33: the caller has the link document and the created flag
GetOrCreateLinkReturn(p) ==
    /\ Call(p).op = "get_or_create_link" /\ Call(p).pc = "return"
    /\ CallGoto(p, IdleCall)
    /\ UNCHANGED <<unlinked, links, next_id, nOps>>

(* SpecLinks: two callers run get_or_create_link concurrently.             *)
InitLinks ==
    /\ OnlyStore
    /\ links \in {{}, {[uuid |-> 1, url |-> "u2"]}}
    /\ subscriber_docs = {}
    /\ mailing_lists = {}
    /\ subscription_docs = {}
    /\ next_id = 1

NextLinks ==
    \E p \in Callers :
        \/ \E url \in Urls : GetOrCreateLinkFind(p, url)
        \/ GetOrCreateLinkInsert(p)
        \/ GetOrCreateLinkReturn(p)

SpecLinks == InitLinks /\ [][NextLinks]_vars

----------------------------------------------------------------------------
(* A target list deleted while the campaign is resolved: delete_mailing_list *)
(* over the subscriptions the send pipeline reads.                         *)

\* the part of the state delete_mailing_list leaves alone here
undeleted == <<storesDollarFields, SUBSCRIBER_BATCH_SIZE, campaign, subscribers, workers, sentTo,
               nReq, statsCall, templates, templateDocs, tracking_events, subscriber_docs,
               subscription_docs, links, next_id>>

\* delete_mailing_list, lines 125-129: find the list, return 0 when missing
TargetListDeleteFind(p, list_uuid) ==
    /\ StoreCall(p, IF list_uuid \in mailing_lists
                    THEN [op |-> "delete_mailing_list", pc |-> "target_delete_one", list_object_id |-> list_uuid]
                    ELSE IdleCall)
    /\ UNCHANGED <<undeleted, mailing_lists, subscriptions>>

\* line 132: delete the list; line 134: go on only when it was deleted
TargetListDeleteOne(p) ==
    /\ Call(p).op = "delete_mailing_list" /\ Call(p).pc = "target_delete_one"
    /\ mailing_lists' = mailing_lists \ {Call(p).list_object_id}
    /\ CallGoto(p, IF Call(p).list_object_id \in mailing_lists
                   THEN [Call(p) EXCEPT !.pc = "target_delete_many"]
                   ELSE IdleCall)
    /\ UNCHANGED <<undeleted, subscriptions, nOps>>

\* line 136: delete the subscriptions of the list
TargetListDeleteMany(p) ==
    /\ Call(p).op = "delete_mailing_list" /\ Call(p).pc = "target_delete_many"
    /\ subscriptions' = [q \in Subs \X Lists |->
                            IF q[2] = Call(p).list_object_id THEN "none" ELSE subscriptions[q]]
    /\ CallGoto(p, IdleCall)
    /\ UNCHANGED <<undeleted, mailing_lists, nOps>>

(* SpecDeletedList: a running campaign, on both lists or on none, is      *)
(* resolved and sent while a caller deletes mailing lists.                 *)
InitDeletedList ==
    /\ storesDollarFields = TRUE
    /\ SUBSCRIBER_BATCH_SIZE = 2
    /\ campaign \in {update_campaign_status(NewCampaign(t), "running").campaign : t \in {<<>>, <<"l1", "l2">>}}
    /\ subscribers \in {f \in [Subs -> SubscriberStatuses \cup {"deleted"}] :
                          /\ f["s1"] \in {"enabled", "blocklisted"}
                          /\ f["s2"] \in {"enabled", "disabled"}
                          /\ f["s3"] = "deleted"}
    /\ subscriptions \in {f \in [Subs \X Lists -> {"confirmed", "unconfirmed", "none"}] :
                            /\ \A l \in Lists : f[<<"s3", l>>] = "none"
                            /\ \A s \in {"s1", "s2"}, l \in Lists : f[<<s, l>>] # "none"}
    /\ workers = [w \in Workers |-> IF w = 1 THEN [IdleWorker EXCEPT !.pc = "orch_get", !.new_status = "running"]
                                    ELSE IdleWorker]
    /\ sentTo = [s \in Subs |-> 0]
    /\ nReq = 1
    /\ nOps = 0
    /\ statsCall = NoCall
    /\ templates = {}
    /\ templateDocs = NoTemplateDocs
    /\ dal = [p \in Callers |-> IdleCall]
    /\ tracking_events = <<>>
    /\ subscriber_docs = {}
    /\ mailing_lists = Lists
    /\ subscription_docs = {}
    /\ links = {}
    /\ next_id = 0

NextDeletedList ==
    \/ OrchestratorStep(1)
    \/ \E l \in Lists : TargetListDeleteFind(1, l)
    \/ TargetListDeleteOne(1)
    \/ TargetListDeleteMany(1)

SpecDeletedList == InitDeletedList /\ [][NextDeletedList]_vars

----------------------------------------------------------------------------
(* The public subscription form: PublicSubscriptionCreateAPIView.post for  *)
(* an email and one list uuid, as the collection calls it makes.           *)

\* the stored lists of the specification and their fields; 6 is no list
PublicFormLists == {2, 3, 4, 5}
RequestedLists == PublicFormLists \cup {6}
ListType(l) == IF l \in {4, 5} THEN "private" ELSE "public"
ListOptinType(l) == IF l \in {3, 5} THEN "double" ELSE "single"

\* a form that asks for "confirmed" whatever the opt-in type
SubStatusFor_always_confirmed(l) == "confirmed"
\* lines 467-469: sub_status for a list
SubStatusFor(l) == IF ListOptinType(l) = "double" THEN "unconfirmed" ELSE "confirmed"

PublicCall(pc, subscriber_id, email, list_uuid, status, optin_email, existing) ==
    [op |-> "public_subscription", pc |-> pc, subscriber_id |-> subscriber_id, email |-> email,
     list_uuid |-> list_uuid, status |-> status, optin_email |-> optin_email, _id |-> existing]

\* lines 453-460: get_subscriber_by_email on the lower-cased email; an
\* existing subscriber is used as it is (at most its name is updated)
PublicGetSubscriber(p, email, list_uuid) ==
    /\ LET found == {d \in subscriber_docs : d.email = Lower(email)}
       IN \/ /\ found = {}
             /\ StoreCall(p, PublicCall("create_find", 0, email, list_uuid, "none", FALSE, 0))
          \/ \E subscriber_doc \in found :
                StoreCall(p, PublicCall("get_list", subscriber_doc._id, email, list_uuid, "none", FALSE, 0))
    /\ UNCHANGED <<unstored, subscriber_docs, mailing_lists, subscription_docs, next_id>>

\* line 455, create_subscriber lines 20-31: its own find_one; ValueError
\* ends the request with a 400
PublicCreateFind(p) ==
    /\ Call(p).op = "public_subscription" /\ Call(p).pc = "create_find"
    /\ CallGoto(p, IF \E d \in subscriber_docs : d.email = Lower(Call(p).email)
                   THEN IdleCall
                   ELSE [Call(p) EXCEPT !.pc = "create_insert"])
    /\ UNCHANGED <<unstored, subscriber_docs, mailing_lists, subscription_docs, next_id, nOps>>

\* create_subscriber lines 33-35 with status "enabled"
PublicCreateInsert(p) ==
    /\ Call(p).op = "public_subscription" /\ Call(p).pc = "create_insert"
    /\ next_id' = next_id + 1
    /\ subscriber_docs' = subscriber_docs \cup
           {[_id |-> next_id + 1, email |-> Lower(Call(p).email), status |-> "enabled"]}
    /\ CallGoto(p, [Call(p) EXCEPT !.pc = "get_list", !.subscriber_id = next_id + 1])
    /\ UNCHANGED <<unstored, mailing_lists, subscription_docs, nOps>>

\* lines 464-471: look the list up; for a stored public list choose the
\* status and, with double opt-in, run send_optin_email_task
PublicGetList(p) ==
    /\ Call(p).op = "public_subscription" /\ Call(p).pc = "get_list"
    /\ LET l == Call(p).list_uuid
       IN CallGoto(p, IF l \in mailing_lists /\ ListType(l) = "public"
                      THEN [Call(p) EXCEPT !.pc = "add_find", !.status = SubStatusFor(l),
                                           !.optin_email = (ListOptinType(l) = "double")]
                      ELSE IdleCall)
    /\ UNCHANGED <<unstored, subscriber_docs, mailing_lists, subscription_docs, next_id, nOps>>

\* line 473, add_subscription lines 23-44: find_one on the pair
PublicAddFind(p) ==
    /\ Call(p).op = "public_subscription" /\ Call(p).pc = "add_find"
    /\ LET found == {d \in subscription_docs : /\ d.subscriber_id = Call(p).subscriber_id
                                               /\ d.list_id = Call(p).list_uuid}
       IN \/ /\ found = {}
             /\ CallGoto(p, [Call(p) EXCEPT !.pc = "add_insert"])
          \/ \E existing_subscription \in found :
                CallGoto(p, IF existing_subscription.status # Call(p).status
                            THEN [Call(p) EXCEPT !.pc = "add_update", !._id = existing_subscription._id]
                            ELSE IdleCall)
    /\ UNCHANGED <<unstored, subscriber_docs, mailing_lists, subscription_docs, next_id, nOps>>

\* add_subscription lines 38-41: update_one sets the status
PublicAddUpdate(p) ==
    /\ Call(p).op = "public_subscription" /\ Call(p).pc = "add_update"
    /\ subscription_docs' = {IF d._id = Call(p)._id THEN [d EXCEPT !.status = Call(p).status] ELSE d :
                               d \in subscription_docs}
    /\ CallGoto(p, IdleCall)
    /\ UNCHANGED <<unstored, subscriber_docs, mailing_lists, next_id, nOps>>

\* add_subscription lines 47-57: insert_one
PublicAddInsert(p) ==
    /\ Call(p).op = "public_subscription" /\ Call(p).pc = "add_insert"
    /\ next_id' = next_id + 1
    /\ subscription_docs' = subscription_docs \cup
           {[_id |-> next_id + 1, subscriber_id |-> Call(p).subscriber_id,
             list_id |-> Call(p).list_uuid, status |-> Call(p).status]}
    /\ CallGoto(p, IdleCall)
    /\ UNCHANGED <<unstored, subscriber_docs, mailing_lists, nOps>>

(* SpecPublic: two visitors submit the public form concurrently; Ann is a  *)
(* subscriber already, confirmed on lists 2 (single opt-in), 3 (double     *)
(* opt-in) and 4 (private), or on none.                                    *)
InitPublic ==
    /\ OnlyStore
    /\ links = {}
    /\ subscriber_docs \in {{[_id |-> 1, email |-> "ann@x.org", status |-> st]} :
                               st \in {"enabled", "blocklisted"}}
    /\ mailing_lists = PublicFormLists
    /\ subscription_docs \in {{}, {[_id |-> 5 + l, subscriber_id |-> 1, list_id |-> l, status |-> "confirmed"] :
                                     l \in {2, 3, 4}}}
    /\ next_id = 9

NextPublic ==
    \E p \in Callers :
        \/ \E email \in {"Ann@x.org", "bob@x.org"}, l \in RequestedLists : PublicGetSubscriber(p, email, l)
        \/ PublicCreateFind(p)
        \/ PublicCreateInsert(p)
        \/ PublicGetList(p)
        \/ PublicAddFind(p)
        \/ PublicAddUpdate(p)
        \/ PublicAddInsert(p)

SpecPublic == InitPublic /\ [][NextPublic]_vars

----------------------------------------------------------------------------
(* mark_events_as_processed called on the recorded events                  *)

\* lines 78-86: nothing for an empty list, else the update_many on the ids
MarkEvents(events, event_ids) ==
    IF event_ids = {} THEN events ELSE mark_events_as_processed(events, event_ids)

\* the call with a list of event _ids
MarkEventsAsProcessed(p, event_ids) ==
    /\ StoreCall(p, [op |-> "mark_events_as_processed", pc |-> "return", event_ids |-> event_ids])
    /\ tracking_events' = MarkEvents(tracking_events, event_ids)
    /\ UNCHANGED <<untracked, campaign>>

\* line 86: modified_count is returned
MarkEventsAsProcessedReturn(p) ==
    /\ Call(p).op = "mark_events_as_processed" /\ Call(p).pc = "return"
    /\ CallGoto(p, IdleCall)
    /\ UNCHANGED <<untracked, campaign, tracking_events, nOps>>

(* SpecEvents: views and clicks are recorded between the calls of one      *)
(* caller that marks events as processed (the update_many is one step).    *)
Marker == CHOOSE p \in Callers : TRUE

InitEvents == InitAggregate

NextEvents ==
    \/ TrackView
    \/ \E link_uuid \in LinkUuids : TrackClick(link_uuid)
    \/ \E event_ids \in SUBSET (1..MaxEvents) : MarkEventsAsProcessed(Marker, event_ids)
    \/ MarkEventsAsProcessedReturn(Marker)

SpecEvents == InitEvents /\ [][NextEvents]_vars

----------------------------------------------------------------------------
(* get_campaigns_for_sending (campaigns_db.py) over the campaign document  *)

MaxSendAt == 2

\* a comparison that takes None for the earliest time
MongoLte_null_first(value, bound) == value <= bound
\* {"$lte": bound} with a datetime bound: matches datetimes up to the bound,
\* and not None
MongoLte(value, bound) == value # NoSendAt /\ value <= bound

\* lines 249-255: the stored campaigns that match the $or query
get_campaigns_for_sending(c, target_datetime) ==
    IF /\ c.exists
       /\ \/ c.status = "scheduled" /\ MongoLte(c.send_at, target_datetime)
          \/ c.status = "running"
    THEN {c}
    ELSE {}

\* the query is made and its result held by the caller
GetCampaignsForSending(p, target_datetime) ==
    /\ StoreCall(p, [op |-> "get_campaigns_for_sending", pc |-> "return",
                     target_datetime |-> target_datetime,
                     result |-> get_campaigns_for_sending(campaign, target_datetime)])
    /\ UNCHANGED <<sending, templates, templateDocs>>

\* line 255: the list is returned
GetCampaignsForSendingReturn(p) ==
    /\ Call(p).op = "get_campaigns_for_sending" /\ Call(p).pc = "return"
    /\ CallGoto(p, IdleCall)
    /\ UNCHANGED <<sending, templates, templateDocs, nOps>>

(* SpecSending: the query at any time, over a campaign in any status with  *)
(* any send_at, or over no campaign.                                       *)
InitSending ==
    /\ storesDollarFields = TRUE
    /\ SUBSCRIBER_BATCH_SIZE = 1
    /\ campaign \in {[NewCampaign(<<>>) EXCEPT !.exists = e, !.status = st, !.send_at = at,
                                               !.started_at = (st = "running"),
                                               !.finished_at = (st = "finished")] :
                        e \in BOOLEAN, st \in CampaignStatuses, at \in {NoSendAt} \cup 0..MaxSendAt}
    /\ subscribers = [s \in Subs |-> "deleted"]
    /\ subscriptions = [q \in Subs \X Lists |-> "none"]
    /\ workers = [w \in Workers |-> IdleWorker]
    /\ sentTo = [s \in Subs |-> 0]
    /\ nReq = 0
    /\ nOps = 0
    /\ statsCall = NoCall
    /\ templates = {}
    /\ CatalogUnused

NextSending ==
    \E p \in Callers :
        \/ \E target_datetime \in 0..MaxSendAt : GetCampaignsForSending(p, target_datetime)
        \/ GetCampaignsForSendingReturn(p)

SpecSending == InitSending /\ [][NextSending]_vars

----------------------------------------------------------------------------
(* Properties *)

TypeOK ==
    /\ campaign.status \in CampaignStatuses
    /\ \A s \in Subs : subscribers[s] \in SubscriberStatuses \cup {"deleted"}
    /\ \A w \in Workers : W(w).recipients \subseteq Subs

\* the orchestrator of handler w has returned after its last batch returned
DispatchCompleted(w) == W(w).pc = "put_refetch" /\ W(w).ids # <<>>

\* handler w is inside the loop of lines 217-221
InDispatch(w) ==
    W(w).pc \in {"batch_get", "batch_fetch", "batch_send", "batch_inc_sent", "batch_inc_failed"}

Range(q) == {q[k] : k \in 1..Len(q)}

\* C1: once every batch of a send attempt with a non-empty recipient set has
\* completed, stats.sent + stats.failed equals stats.to_send, also when
\* subscribers were deleted or disabled or the campaign was updated meanwhile.
C1_SentPlusFailedIsToSend ==
    \A w \in Workers :
        DispatchCompleted(w) /\ campaign.exists =>
            campaign.stats["sent"] + campaign.stats["failed"] = campaign.stats["to_send"]

\* a send attempt completed all its batches although one of its recipients
\* was deleted or is no longer enabled
C1_Witness ==
    \E w \in Workers :
        /\ DispatchCompleted(w) /\ campaign.exists
        /\ Len(W(w).ids) > SUBSCRIBER_BATCH_SIZE
        /\ \E s \in Range(W(w).ids) : subscribers[s] # "enabled"
        /\ \E s \in Range(W(w).ids) : sentTo[s] > 0

\* C2: update_campaign_stats called with {"$inc": {"stats.sent": n}} adds n
\* to stats.sent, called with {"$set": {"stats.to_send": k, "stats.sent": 0,
\* "stats.failed": 0}} sets these three fields, and no other counter changes.
C2_OperatorPayloadApplied ==
    campaign.exists =>
        /\ \A n \in 1..MaxStat :
             statsCall.payload = IncPayload("sent", n) =>
                 /\ ~statsCall.raised
                 /\ campaign.stats = [statsCall.before EXCEPT !["sent"] = @ + n]
        /\ \A k \in 0..MaxStat :
             statsCall.payload = SetToSendPayload(k) =>
                 /\ ~statsCall.raised
                 /\ campaign.stats = [statsCall.before EXCEPT !["to_send"] = k, !["sent"] = 0, !["failed"] = 0]

\* C3: once a send has begun, stats.sent + stats.failed never exceeds
\* stats.to_send, under every interleaving of two handlers.
C3_SentPlusFailedAtMostToSend ==
    campaign.exists /\ campaign.started_at =>
        campaign.stats["sent"] + campaign.stats["failed"] <= campaign.stats["to_send"]

\* a second orchestrator run writes its batch counters while the batches of
\* an earlier run are still executing
C3_Witness ==
    /\ campaign.exists /\ campaign.started_at
    /\ W(1).pc = "batch_fetch" /\ W(1).i > 0
    /\ W(2).pc = "batch_inc_failed" /\ W(2).successful_sends > 0
    /\ \E s \in Subs : sentTo[s] >= 2

\* the orchestrator of handler w has just written the stats of line 208
StatsWritten(w) ==
    \/ W(w).pc = "batch_get" /\ W(w).i = 0
    \/ W(w).pc = "orch_finish_empty"

\* the subscribers that are enabled and confirmed on a target list of handler w
Eligible(w) ==
    {s \in Subs : /\ subscribers[s] = "enabled"
                  /\ \E l \in Range(W(w).lists) : subscriptions[<<s, l>>] = "confirmed"}

\* C4: for a running campaign with target lists the resolved recipient set
\* is exactly the enabled subscribers confirmed on a target list, and
\* stats.to_send is set to its size with stats.sent and stats.failed at 0.
C4_RecipientsExactAndCounted ==
    \A w \in Workers :
        StatsWritten(w) /\ campaign.exists =>
            /\ W(w).recipients = Eligible(w)
            /\ campaign.stats["to_send"] = Cardinality(Eligible(w))
            /\ campaign.stats["sent"] = 0
            /\ campaign.stats["failed"] = 0

\* C5: a subscriber whose global status is disabled or blocklisted is never
\* in the resolved recipient set nor in a batch, whatever its subscriptions.
C5_NotEnabledNeverResolved ==
    \A w \in Workers, s \in Subs :
        subscribers[s] # "enabled" =>
            s \notin W(w).recipients /\ s \notin Range(W(w).ids) /\ s \notin Range(W(w).batch)

\* resolution finished with recipients while a blocklisted subscriber is
\* confirmed on every target list
C5_Witness ==
    \E s \in Subs :
        /\ subscribers[s] = "blocklisted"
        /\ W(1).pc = "batch_fetch"
        /\ Len(W(1).lists) = 2
        /\ \A l \in Range(W(1).lists) : subscriptions[<<s, l>>] = "confirmed"
        /\ W(1).recipients # {}

\* the batch offsets of the loop of line 217
BatchOffsets(n) == {i \in 0..n : i < n /\ i % SUBSCRIBER_BATCH_SIZE = 0}

\* C6: a subscriber confirmed on two target lists is once in the resolved
\* recipients, counted once in stats.to_send and in exactly one batch.
C6_ConfirmedTwiceCountedOnce ==
    \A w \in Workers, s \in Subs :
        /\ W(w).pc = "batch_get" /\ W(w).i = 0 /\ campaign.exists
        /\ subscribers[s] = "enabled"
        /\ Len(W(w).lists) = 2 /\ W(w).lists[1] # W(w).lists[2]
        /\ \A l \in Range(W(w).lists) : subscriptions[<<s, l>>] = "confirmed"
        => /\ Cardinality({k \in 1..Len(W(w).ids) : W(w).ids[k] = s}) = 1
           /\ campaign.stats["to_send"] = Len(W(w).ids)
           /\ Cardinality({i \in BatchOffsets(Len(W(w).ids)) : s \in Range(BatchSlice(W(w).ids, i))}) = 1

\* C7: with no pause or cancel request, a campaign whose batches have all
\* completed is finished when the orchestrator returns.
C7_FinishedAfterLastBatch ==
    \A w \in Workers :
        DispatchCompleted(w) /\ campaign.exists => campaign.status = "finished"

\* the ids of the current run of handler v that its batches are done with
Processed(v) ==
    IF ~InDispatch(v) THEN {}
    ELSE {W(v).ids[k] : k \in {j \in 1..Len(W(v).ids) :
              \/ j <= W(v).i
              \/ j < W(v).i + W(v).pos
              \/ j <= W(v).i + W(v).pos /\ W(v).pc \in {"batch_inc_sent", "batch_inc_failed"}}}

\* C8: when the orchestrator runs again while an earlier attempt is only
\* partly done, no subscriber that already got the message gets it again.
C8_NoResendAfterPartialSend ==
    [][\A w \in Workers, v \in Workers, s \in Subs :
          /\ v # w
          /\ W(w).pc = "batch_send" /\ workers'[w] # workers[w]
          /\ W(w).batch[W(w).pos] = s
          /\ InDispatch(v) /\ s \in Processed(v) /\ sentTo[s] >= 1
          /\ Range(W(v).ids) \ Processed(v) # {}
          => sentTo'[s] = sentTo[s]]_vars

\* C9: once the campaign is paused or cancelled during dispatch, no further
\* batch is started.
C9_NoBatchStartedAfterStop ==
    [][\A w \in Workers :
          /\ campaign.exists /\ campaign.status \in {"paused", "cancelled"}
          /\ W(w).pc = "batch_get" /\ W(w).i > 0
          => workers'[w].pc # "batch_fetch"]_vars

AllowedEdges ==
    {<<"draft", "scheduled">>, <<"scheduled", "running">>, <<"running", "paused">>,
     <<"running", "cancelled">>, <<"running", "finished">>, <<"paused", "running">>}

\* C10: the status of a campaign only changes along the edges of the
\* campaign state machine.
C10_StatusFollowsEdges ==
    [][campaign.exists /\ campaign'.exists /\ campaign'.status # campaign.status
          => <<campaign.status, campaign'.status>> \in AllowedEdges]_vars

\* C11: every step that changes the stored status to 'running' starts
\* process_campaign_sending_task in exactly one handler, whichever request
\* wrote the status; a status request for another status, or one that
\* modified nothing, never starts it.
C11_RunningStartsOrchestratorOnce ==
    [][/\ (campaign.exists /\ campaign'.exists
             /\ campaign.status # "running" /\ campaign'.status = "running"
           => Cardinality({w \in Workers : W(w).pc # "orch_get" /\ workers'[w].pc = "orch_get"}) = 1)
       /\ \A w \in Workers :
            W(w).pc = "put_update" /\ (W(w).new_status # "running" \/ ~campaign.exists)
            => workers'[w].pc # "orch_get"]_vars

\* the step is one of handler w
StepOf(w) == workers'[w] # workers[w]

\* C12: in the batch task of an existing campaign a failed send goes on to the
\* next subscriber, every id of the batch is handled once, the success and
\* failure counts add up to the batch size, and the task adds the success
\* count to stats.sent and the failure count to stats.failed.
C12_BatchCountsEverySubscriber ==
    [][\A w \in Workers :
          campaign.exists /\ StepOf(w) =>
            /\ W(w).pc = "batch_send" =>
                 /\ workers'[w].successful_sends + workers'[w].failed_sends = W(w).pos
                 /\ \/ workers'[w].pc = "batch_fetch" /\ workers'[w].pos = W(w).pos + 1
                    \/ workers'[w].pc = "batch_inc_sent" /\ W(w).pos = Len(W(w).batch)
            /\ W(w).pc = "batch_inc_sent" =>
                 /\ W(w).successful_sends + W(w).failed_sends = Len(W(w).batch)
                 /\ workers'[w].pc = "batch_inc_failed"
                 /\ campaign'.stats["sent"] = campaign.stats["sent"] + W(w).successful_sends
            /\ W(w).pc = "batch_inc_failed" =>
                 campaign'.stats["failed"] = campaign.stats["failed"] + W(w).failed_sends]_vars

\* the subscriber the batch of handler w has reached
Current(w) == W(w).batch[W(w).pos]

\* C13 as stated: a resolved recipient that is deleted or not enabled when
\* the batch reaches it is skipped and counted as one failure, and no
\* message is handed to the mailer for a subscriber that is not enabled at
\* the moment of the send.
C13_NeverSentUnlessEnabledAtSend ==
    [][/\ \A w \in Workers :
            StepOf(w) /\ W(w).pc = "batch_fetch" /\ subscribers[Current(w)] # "enabled"
            => /\ sentTo' = sentTo
               /\ workers'[w].pc # "batch_send"
               /\ workers'[w].failed_sends = W(w).failed_sends + 1
       /\ \A s \in Subs : sentTo'[s] > sentTo[s] => subscribers[s] = "enabled"]_vars

\* C13 amended: the skip is as stated, and a message is handed to the mailer
\* only for a subscriber that was enabled when the batch fetched it
\* (line 108); the status is not read again before the send.
C13_NeverSentUnlessEnabledAtFetch ==
    [][/\ \A w \in Workers :
            StepOf(w) /\ W(w).pc = "batch_fetch" /\ subscribers[Current(w)] # "enabled"
            => /\ sentTo' = sentTo
               /\ workers'[w].pc # "batch_send"
               /\ workers'[w].failed_sends = W(w).failed_sends + 1
       /\ \A w \in Workers :
            workers'[w].pc = "batch_send" /\ StepOf(w)
            => W(w).pc = "batch_fetch" /\ subscribers[Current(w)] = "enabled"
                 /\ workers'[w].batch = W(w).batch /\ workers'[w].pos = W(w).pos
       /\ \A s \in Subs :
            sentTo'[s] > sentTo[s]
            => \E w \in Workers : StepOf(w) /\ W(w).pc = "batch_send" /\ Current(w) = s]_vars

\* a batch skipped a resolved recipient that is no longer enabled and
\* counted the failure
C13_Witness ==
    \E w \in Workers :
        /\ W(w).pc = "batch_inc_sent"
        /\ W(w).failed_sends = Len(W(w).batch) /\ W(w).successful_sends = 0
        /\ \A k \in 1..Len(W(w).batch) :
             subscribers[W(w).batch[k]] # "enabled" /\ sentTo[W(w).batch[k]] = 0

\* ceil(n / b)
CeilDiv(n, b) == (n + b - 1) \div b

\* C14: n resolved recipients are dispatched in exactly ceil(n/B) batches,
\* the slices of the id list at offsets 0, B, 2B, ...: each but the last
\* has B ids, the last the remaining ones, they are pairwise disjoint and
\* their union is the resolved recipient set.
C14_CeilBatchesPartitionRecipients ==
    [][\A w \in Workers :
          LET n == Cardinality(W(w).recipients)
              B == SUBSCRIBER_BATCH_SIZE
          IN /\ StepOf(w) /\ W(w).pc = "orch_set_stats" /\ n > 0 /\ campaign.exists
                => /\ workers'[w].pc = "batch_get" /\ workers'[w].i = 0
                   /\ Len(workers'[w].ids) = n
                   /\ Range(workers'[w].ids) = W(w).recipients
             /\ InDispatch(w)
                => /\ W(w).i \in BatchOffsets(n)
                   /\ W(w).batch = BatchSlice(W(w).ids, W(w).i)
                   /\ Len(W(w).batch) = IF W(w).i + B <= n THEN B ELSE n - B * (CeilDiv(n, B) - 1)
                   /\ Cardinality(BatchOffsets(n)) = CeilDiv(n, B)
                   /\ \A i, j \in BatchOffsets(n) :
                        i # j => Range(BatchSlice(W(w).ids, i)) \cap Range(BatchSlice(W(w).ids, j)) = {}
                   /\ UNION {Range(BatchSlice(W(w).ids, i)) : i \in BatchOffsets(n)} = W(w).recipients
             /\ StepOf(w) /\ InDispatch(w) /\ ~InDispatch(w)'
                => /\ workers'[w].pc = "put_refetch"
                   /\ workers'[w].i = B * CeilDiv(n, B)]_vars

\* the orchestrator entered by handler 1 has returned or raised
OrchestratorLeft == W(1).pc \in {"put_refetch", "idle"}

\* C15: when the orchestrator runs for a running campaign without target
\* lists, it dispatches no batch and sends nothing, and when it is left
\* stats.to_send is 0 and the status is 'finished'.
C15_NoTargetsFinishedWithZero ==
    campaign.target_list_ids = <<>> =>
        /\ ~InDispatch(1) /\ W(1).ids = <<>>
        /\ \A s \in Subs : sentTo[s] = 0
        /\ OrchestratorLeft =>
             /\ campaign.status = "finished" /\ campaign.finished_at
             /\ campaign.stats["to_send"] = 0

\* the orchestrator ran for a campaign without target lists and was left
C15_Witness ==
    /\ campaign.target_list_ids = <<>> /\ OrchestratorLeft
    /\ campaign.status = "finished"
    /\ \E s \in Subs, l \in Lists : subscribers[s] = "enabled" /\ subscriptions[<<s, l>>] = "confirmed"

\* the enabled subscribers confirmed on a target list of the stored campaign
EligibleNow ==
    {s \in Subs : /\ subscribers[s] = "enabled"
                  /\ \E l \in Range(campaign.target_list_ids) : subscriptions[<<s, l>>] = "confirmed"}

\* C16: when the campaign has target lists but no eligible recipient, the
\* orchestrator dispatches no batch, and when it is left stats.to_send is 0
\* and the status is 'finished'.
C16_NoRecipientsFinishedWithZero ==
    campaign.target_list_ids # <<>> /\ EligibleNow = {} =>
        /\ ~InDispatch(1) /\ W(1).ids = <<>>
        /\ \A s \in Subs : sentTo[s] = 0
        /\ OrchestratorLeft =>
             /\ campaign.status = "finished"
             /\ campaign.stats["to_send"] = 0

\* C17: with the batches of two handlers interleaving, every counter update
\* of a batch is an atomic add to the value stored at the moment of the
\* write: stats.sent grows by the batch's success count, stats.failed by its
\* failure count, and no other counter changes, so no update is lost.
C17_CounterUpdatesAreAtomicAdds ==
    [][\A w \in Workers :
          StepOf(w) /\ campaign.exists =>
            /\ W(w).pc = "batch_inc_sent" /\ W(w).successful_sends > 0
               => campaign'.stats = [campaign.stats EXCEPT !["sent"] = @ + W(w).successful_sends]
            /\ W(w).pc = "batch_inc_failed" /\ W(w).failed_sends > 0
               => campaign'.stats = [campaign.stats EXCEPT !["failed"] = @ + W(w).failed_sends]]_vars

\* the counter updates a batch task with these counts is to issue
SentCalls(rec) ==
    IF rec.successful_sends > 0 THEN <<IncPayload("sent", rec.successful_sends)>> ELSE <<>>
FailedCalls(rec) ==
    IF rec.failed_sends > 0 THEN <<IncPayload("failed", rec.failed_sends)>> ELSE <<>>

\* C18: one execution of the batch task issues no counter update inside its
\* loop, then at most one $inc of stats.sent and at most one $inc of
\* stats.failed, each only when its count is greater than 0; a batch whose
\* sends all succeed issues exactly one update, $inc stats.sent by the
\* batch size.
C18_OneUpdatePerMetricPerBatch ==
    [][\A w \in Workers :
          StepOf(w) /\ campaign.exists =>
            /\ W(w).pc \in {"batch_get", "batch_fetch", "batch_send"} /\ InDispatch(w)'
               => workers'[w].calls = <<>>
            /\ W(w).pc = "batch_inc_sent"
               => workers'[w].calls = SentCalls(W(w))
            /\ W(w).pc = "batch_inc_failed"
               => /\ workers'[w].calls = SentCalls(W(w)) \o FailedCalls(W(w))
                  /\ W(w).successful_sends = Len(W(w).batch)
                     => workers'[w].calls = <<IncPayload("sent", Len(W(w).batch))>>]_vars

\* a batch task has returned after one update of each counter
C18_Witness ==
    \E w \in Workers :
        /\ campaign.exists /\ Len(W(w).calls) = 2
        /\ \E n \in 1..MaxBatchSize : W(w).calls[1] = IncPayload("sent", n)
        /\ \E n \in 1..MaxBatchSize : W(w).calls[2] = IncPayload("failed", n)

\* C19: a run of process_campaign_sending_task or of the batch task that
\* finds no campaign document when it starts returns at once: it fetches no
\* subscriber, sends no message, issues no counter update and leaves the
\* campaign collection as it is.
C19_MissingCampaignAborts ==
    [][\A w \in Workers :
          StepOf(w) /\ ~campaign.exists =>
            /\ W(w).pc = "orch_get"
               => /\ workers'[w].pc = "put_refetch" /\ workers'[w].ids = <<>>
                  /\ campaign' = campaign /\ sentTo' = sentTo
            /\ W(w).pc = "batch_get"
               => /\ workers'[w].pc \in {"batch_get", "put_refetch"}
                  /\ workers'[w].calls = <<>>
                  /\ campaign' = campaign /\ sentTo' = sentTo]_vars

\* every batch of a dispatch found the campaign deleted and returned
C19_Witness ==
    \E w \in Workers :
        /\ ~campaign.exists /\ DispatchCompleted(w)
        /\ W(w).calls = <<>>
        /\ \A s \in Subs : sentTo[s] = 0

\* the campaign references a template that is not stored
TemplateMissing ==
    campaign.exists /\ campaign.template_id # "none" /\ campaign.template_id \notin templates

\* C20: when the campaign references a template that no longer exists, the
\* send invocation sends no message, does not change the campaign status
\* and does not increase stats.sent.
C20_MissingTemplateAborts ==
    [][\A w \in Workers :
          StepOf(w) /\ TemplateMissing /\ (InDispatch(w) => W(w).template_content = "")
          => /\ sentTo' = sentTo
             /\ campaign'.status = campaign.status
             /\ campaign'.stats["sent"] <= campaign.stats["sent"]]_vars

\* the counters that only grow
MonotoneStatFields == StatFields \ {"to_send"}

\* C21: no step decreases sent, failed, views, clicks, bounces or
\* unsubscribes of the campaign, and stats.to_send is written exactly once
\* per send attempt: the orchestrator's stats step stores the number of
\* resolved recipients (0 without target lists) and no other step of a
\* handler changes it.
C21_CountersMonotoneToSendOnce ==
    [][/\ campaign.exists /\ campaign'.exists
          => \A f \in MonotoneStatFields : campaign'.stats[f] >= campaign.stats[f]
       /\ \A w \in Workers :
            StepOf(w) /\ campaign.exists
            => campaign'.stats["to_send"] =
                 IF W(w).pc = "orch_set_stats" THEN Cardinality(W(w).recipients)
                 ELSE IF W(w).pc = "orch_empty_stats" THEN 0
                 ELSE campaign.stats["to_send"]]_vars

\* C22: with set_template_as_default calls of two callers interleaving, every
\* state, the ones between the unset step and the set step included, has
\* at most one default template per type, and once all calls have returned
\* a requested template is the default.
C22_AtMostOneDefaultUnderConcurrency ==
    /\ DefaultsUnique(templateDocs, templates)
    /\ (nOps > 0 /\ \A p \in Callers : Call(p).pc = "idle")
       => \E t \in templates : templateDocs[t].is_default

\* C23: after each of a sequence of create_template, update_template and
\* set_template_as_default calls has returned, at most one template per
\* template_type has is_default = true.
C23_AtMostOneDefaultAfterEachCall ==
    Call(1).pc = "idle" => DefaultsUnique(templateDocs, templates)

CountOf(event_type) ==
    Cardinality({i \in 1..Len(tracking_events) : tracking_events[i].event_type = event_type})

\* C24: once an aggregation run has finished and no event was recorded since
\* it started, views and clicks hold every recorded event exactly once, also
\* after further runs over the same events.
C24_AggregationCountsOnce ==
    (/\ nOps >= 1
     /\ \A p \in Callers : Call(p).pc = "idle"
     /\ \A i \in 1..Len(tracking_events) : tracking_events[i].timestamp < nOps)
    => /\ campaign.stats.views = CountOf("view")
       /\ campaign.stats.clicks = CountOf("click")

C26_RunCountsAndMarksFetched ==
    [][\A p \in Callers :
          (Call(p).pc = "pass" /\ dal'[p].pc = "idle") =>
              LET views == get_unprocessed_events_for_campaign(tracking_events, "view")
                  clicks == get_unprocessed_events_for_campaign(tracking_events, "click")
              IN /\ campaign'.stats.views = campaign.stats.views + Cardinality(views)
                 /\ campaign'.stats.clicks = campaign.stats.clicks + Cardinality(clicks)
                 /\ tracking_events' = mark_events_as_processed(tracking_events, views \cup clicks)]_vars

\* C27: every stored subscription references a stored subscriber and a
\* stored mailing list, in every state, also between the calls of
\* delete_mailing_list.
C27_NoOrphanSubscription ==
    \A d \in subscription_docs : d.subscriber_id \in SubscriberIds /\ d.list_id \in mailing_lists

\* C28: the store holds at most one subscription document per (subscriber,
\* list) pair, whatever the interleaving of the add_subscription calls.
C28_OneSubscriptionPerPair ==
    \A d, e \in subscription_docs :
        (d.subscriber_id = e.subscriber_id /\ d.list_id = e.list_id) => d = e

\* C29: no two stored subscribers have the same lower-cased email, whatever
\* the interleaving of the create_subscriber and update_subscriber calls.
C29_EmailsUnique ==
    \A d, e \in subscriber_docs : Lower(d.email) = Lower(e.email) => d = e

\* the calls that are returning a link for the url
Returning(url) ==
    {p \in Callers : Call(p).op = "get_or_create_link" /\ Call(p).pc = "return" /\ Call(p).url = url}

\* C30: every step leaves at most one stored link per url, keeps every stored
\* link as it is, and the calls returning for one url return the same uuid,
\* at most one of them with created = true.
C30_OneStableLinkPerUrl ==
    [][/\ \A l, m \in links' : l.url = m.url => l = m
       /\ links \subseteq links'
       /\ \A url \in Urls : \A p, q \in Returning(url)' :
             /\ dal'[p].uuid = dal'[q].uuid
             /\ (p # q => ~(dal'[p].created /\ dal'[q].created))]_vars

\* C31: resolution does not raise on a deleted target list; it fetches
\* nobody for a target list that is deleted when it comes to it, and the
\* confirmed subscribers of a target list that is stored.
C31_DeletedTargetListSkipped ==
    [][\A w \in Workers :
          W(w).pc = "orch_confirmed" /\ workers'[w].pc # "orch_confirmed" =>
              LET l == W(w).lists[W(w).li]
              IN /\ workers'[w].pc # "idle"
                 /\ l \notin mailing_lists => workers'[w].pc # "orch_enabled"
                 /\ l \in mailing_lists =>
                       workers'[w].confirmed = {s \in Subs : subscriptions[<<s, l>>] = "confirmed"}]_vars

\* C32: the task started for a stored campaign whose status is not
\* "running" returns at once: the campaign document, its status and stats,
\* stay as they are, no recipient is resolved and no batch is dispatched.
C32_NotRunningLeftAlone ==
    [][\A w \in Workers :
          (/\ W(w).pc = "orch_get"
           /\ workers'[w] # W(w)
           /\ campaign.exists /\ campaign.status # "running")
          => /\ campaign' = campaign
             /\ sentTo' = sentTo
             /\ workers'[w].pc = "put_refetch"
             /\ workers'[w].recipients = {} /\ workers'[w].ids = <<>> /\ workers'[w].batch = <<>>]_vars

\* a request for "running" whose task found the campaign paused or cancelled
\* by the other handler and returned
C32_Witness ==
    \E w \in Workers :
        /\ W(w).pc = "put_refetch" /\ W(w).new_status = "running"
        /\ W(w).lists = <<>>
        /\ campaign.target_list_ids # <<>>
        /\ campaign.status \in {"paused", "cancelled"}

Written ==
    {e \in subscription_docs' : e \notin subscription_docs}

C35_RunningStartedFinishedStamped ==
    campaign.exists =>
        /\ campaign.status = "running" => campaign.started_at
        /\ campaign.status = "finished" => campaign.finished_at

\* C36: get_campaigns_for_sending(t) returns the stored campaign exactly when
\* it is running, or scheduled with a send_at that is set and not later than
\* t; a draft, paused, cancelled or finished campaign is never returned.
C36_ReturnsDueScheduledAndRunning ==
    \A p \in Callers :
        (Call(p).op = "get_campaigns_for_sending" /\ Call(p).pc = "return") =>
            LET t == Call(p).target_datetime
                due == /\ campaign.status = "scheduled"
                       /\ campaign.send_at # NoSendAt
                       /\ campaign.send_at <= t
            IN /\ Call(p).result \subseteq {campaign}
               /\ (campaign \in Call(p).result) <=> (campaign.exists /\ (due \/ campaign.status = "running"))
               /\ \A c \in Call(p).result :
                     c.status \notin {"draft", "paused", "cancelled", "finished"}

\* the query has left out a scheduled campaign without send_at, and the
\* other caller's has returned a scheduled campaign that is due
C36_Witness ==
    /\ campaign.exists /\ campaign.status = "scheduled"
    /\ \E p, q \in Callers :
          /\ Call(p).op = "get_campaigns_for_sending" /\ Call(q).op = "get_campaigns_for_sending"
          /\ \/ campaign.send_at = NoSendAt /\ Call(p).result = {} /\ Call(q).result = {}
             \/ /\ campaign.send_at = 1
                /\ Call(p).target_datetime = 0 /\ Call(p).result = {}
                /\ Call(q).target_datetime = 1 /\ Call(q).result = {campaign}

\* C37: an event is recorded unprocessed; no step deletes an event or changes
\* its type or time; a processed event stays processed; and a step changes
\* the processed marker only of events whose ids a mark_events_as_processed
\* call was given.
C37_EventsAppendOnlyMarkedOnce ==
    [][/\ Len(tracking_events') >= Len(tracking_events)
       /\ \A i \in 1..Len(tracking_events') :
             i > Len(tracking_events) => tracking_events'[i].processed_for_stats_at = "None"
       /\ \A i \in 1..Len(tracking_events) :
             /\ tracking_events'[i].event_type = tracking_events[i].event_type
             /\ tracking_events'[i].timestamp = tracking_events[i].timestamp
             /\ tracking_events[i].processed_for_stats_at # "None"
                   => tracking_events'[i].processed_for_stats_at # "None"
             /\ tracking_events'[i].processed_for_stats_at # tracking_events[i].processed_for_stats_at
                   => \E p \in Callers : /\ Call(p).pc = "idle"
                                         /\ dal'[p].op = "mark_events_as_processed"
                                         /\ i \in dal'[p].event_ids]_vars

\* of three recorded events the first is processed and the others are not,
\* after a call that named the first and an id that is not stored
C37_Witness ==
    /\ Len(tracking_events) = 3
    /\ tracking_events[1].processed_for_stats_at = "now"
    /\ tracking_events[2].processed_for_stats_at = "None"
    /\ tracking_events[3].processed_for_stats_at = "None"
    /\ \E p \in Callers : Call(p).op = "mark_events_as_processed" /\ Call(p).event_ids = {1, 3}
                          /\ tracking_events[3].timestamp > tracking_events[1].timestamp
====
